---------------------------- MODULE Spec2Model ----------------------------
(***************************************************************************)
(* Model of the ingredient pipeline of the recipe knowledge-graph          *)
(* repository: the keyword classifier (utils/ingredient_classifier.py),    *)
(* the embedding normalizers (ingredient_embedder_new.py,                  *)
(* src/utils/ingredient_embedder.py, utils/ingredient_embedder.py), the    *)
(* regex parser of ingredient phrases (ingredient_parser_new_ds.py,        *)
(* utils/ingredient_embedder.py), the meal-type classifiers                *)
(* (utils/meal_type_embedder.py, src/graph_db/loaders/recipes.py) and the  *)
(* price loader (src/graph_db/loaders/price.py).                           *)
(*                                                                         *)
(* Python strings are modelled as sequences of one-character strings, so   *)
(* that len(), lower(), strip(), the `in` substring test and sorted() are  *)
(* computed on the characters as Python computes them.                     *)
(***************************************************************************)
EXTENDS Integers, Sequences, FiniteSets, TLC

VARIABLES
    classifier,     \* ingredient_classifier._classifier: "None" or the instance
    returned,       \* the IngredientProperties records handed out so far, in call order
    impl,           \* which IngredientNormalizer class the instance is
    encode,         \* the sentence-embedding model: name -> vector
    threshold,      \* IngredientNormalizer.threshold, in hundredths
    canonical,      \* IngredientNormalizer.canonical: raw name -> canonical name
    embeddings,     \* IngredientNormalizer.embeddings: one vector per cluster
    names,          \* IngredientNormalizer.names: one representative per cluster
    to_embed,       \* IngredientNormalizer.to_embed: names staged for the next build
    history,        \* the normalize() calls made so far, with what each returned
    parsed,         \* the last parse_ingredient / split_ingredients call and its result
    meal_embeddings,\* MealTypeEmbedder.embeddings: one vector per meal type
    meal_threshold, \* MealTypeEmbedder.threshold, in hundredths
    meal_type,      \* the last meal-type classification and its result
    ingredients,    \* the names of the Ingredient nodes of the graph
    has_price,      \* the HAS_PRICE relationships of the graph
    loaded,         \* the PriceLoader.load_data calls that have ended, with their batches
    extracted,      \* the extract_core_ingredient calls made so far
    price_loader,   \* a PriceLoader: its driver and a load_data call between its two sessions
    loader,         \* a RecipeLoader, FoodItemLoader or PersonLoader and its load_data call
    connection      \* a Neo4jConnection: driver, connected, the calls that returned, a connect() in progress

clsVars  == <<classifier, returned>>
normVars == <<impl, encode, threshold, canonical, embeddings, names, to_embed, history>>
textVars == <<parsed, meal_embeddings, meal_threshold, meal_type,
              ingredients, has_price, loaded, extracted, price_loader>>
vars     == <<clsVars, normVars, textVars, loader, connection>>

\* Bounds of the model: the classify_ingredient calls whose records are
\* kept, the normalize() calls on a one-at-a-time normalizer, and the
\* normalize() lookups on a staged normalizer.
MaxClassifyCalls == 3
MaxCalls == 4
MaxLookups == 1

\* The length of the strings handed to split_ingredients and
\* parse_ingredient, apart from the longer phrases named below.
MaxLen == 4

\* The rows of a price table, the load_data calls and the
\* extract_core_ingredient calls that are kept.
MaxRows == 2
MaxLoads == 1
MaxExtracts == 2
\* The rows of a frame that is loaded one row per batch, and the calls made
\* on a connection.
MaxRecords == 12
MaxOps == 3

-----------------------------------------------------------------------------
(* Python str operations on character sequences.                           *)

UpperChars == <<"A","B","C","D","E","F","G","H","I","J","K","L","M",
                "N","O","P","Q","R","S","T","U","V","W","X","Y","Z">>
LowerChars == <<"a","b","c","d","e","f","g","h","i","j","k","l","m",
                "n","o","p","q","r","s","t","u","v","w","x","y","z">>

\* The characters in code-point order, as far as the model's strings use them.
CodePoints == <<"\t", "\n", " ", "'", ",", "-", ".", "/",
                "0","1","2","3","4","5","6","7","8","9">>
              \o UpperChars \o LowerChars

Ord(c) == CHOOSE i \in 1..Len(CodePoints) : CodePoints[i] = c

Whitespace == {" ", "\t", "\n"}

\* str.lower() on one character.
LowerChar(c) ==
    IF \E i \in 1..Len(UpperChars) : UpperChars[i] = c
    THEN LowerChars[CHOOSE i \in 1..Len(UpperChars) : UpperChars[i] = c]
    ELSE c

\* str.lower()
Lower(s) == [i \in 1..Len(s) |-> LowerChar(s[i])]

\* str.strip(): drop leading and trailing whitespace.
Strip(s) ==
    LET keep == {i \in 1..Len(s) : s[i] \notin Whitespace}
    IN  IF keep = {} THEN <<>>
        ELSE LET lo == CHOOSE i \in keep : \A j \in keep : i <= j
                 hi == CHOOSE i \in keep : \A j \in keep : j <= i
             IN  SubSeq(s, lo, hi)

\* Python's `k in s` on strings: k occurs as a contiguous substring of s.
Contains(s, k) ==
    \E i \in 0..(Len(s) - Len(k)) : SubSeq(s, i + 1, i + Len(k)) = k

\* any(keyword in s for keyword in keywords)
AnyKeywordIn(s, keywords) == \E k \in keywords : Contains(s, k)

\* Python's < on strings: lexicographic by code point, a proper prefix first.
StrLess(a, b) ==
    \/ \E i \in 1..Len(a) :
          /\ i <= Len(b)
          /\ \A j \in 1..(i - 1) : a[j] = b[j]
          /\ Ord(a[i]) < Ord(b[i])
    \/ /\ Len(a) < Len(b)
       /\ \A j \in 1..Len(a) : a[j] = b[j]

-----------------------------------------------------------------------------
(* utils/ingredient_classifier.py                                          *)

\* self.meat_keywords (ingredient_classifier.py:75-82)
meat_keywords ==
    { <<"b","e","e","f">>, <<"s","t","e","a","k">>,
      <<"g","r","o","u","n","d"," ","b","e","e","f">>, <<"c","h","u","c","k">>,
      <<"s","i","r","l","o","i","n">>, <<"r","i","b","e","y","e">>,
      <<"b","r","i","s","k","e","t">>, <<"p","o","r","k">>, <<"b","a","c","o","n">>,
      <<"h","a","m">>, <<"s","a","u","s","a","g","e">>, <<"p","e","p","p","e","r","o","n","i">>,
      <<"p","r","o","s","c","i","u","t","t","o">>, <<"c","h","o","r","i","z","o">>,
      <<"l","a","m","b">>, <<"m","u","t","t","o","n">>, <<"v","e","a","l">>,
      <<"v","e","n","i","s","o","n">>, <<"d","u","c","k">>, <<"g","o","o","s","e">>,
      <<"t","u","r","k","e","y">>, <<"c","h","i","c","k","e","n">>, <<"m","e","a","t">>,
      <<"m","e","a","t","b","a","l","l">>, <<"m","e","a","t","l","o","a","f">>,
      <<"s","a","l","a","m","i">>, <<"b","o","l","o","g","n","a">>,
      <<"p","a","s","t","r","a","m","i">>, <<"a","n","d","o","u","i","l","l","e">>,
      <<"b","r","a","t","w","u","r","s","t">>, <<"k","i","e","l","b","a","s","a">>,
      <<"f","r","a","n","k","f","u","r","t","e","r">>, <<"h","o","t"," ","d","o","g">>,
      <<"p","a","n","c","e","t","t","a">>, <<"g","u","a","n","c","i","a","l","e">>,
      <<"l","a","r","d">>, <<"t","a","l","l","o","w">>, <<"s","u","e","t">> }

\* self.poultry_keywords (ingredient_classifier.py:84-89)
poultry_keywords ==
    { <<"c","h","i","c","k","e","n">>, <<"t","u","r","k","e","y">>, <<"d","u","c","k">>,
      <<"g","o","o","s","e">>, <<"q","u","a","i","l">>, <<"p","h","e","a","s","a","n","t">>,
      <<"c","o","r","n","i","s","h"," ","h","e","n">>,
      <<"c","h","i","c","k","e","n"," ","b","r","e","a","s","t">>,
      <<"c","h","i","c","k","e","n"," ","t","h","i","g","h">>,
      <<"c","h","i","c","k","e","n"," ","w","i","n","g">>,
      <<"t","u","r","k","e","y"," ","b","r","e","a","s","t">>,
      <<"g","r","o","u","n","d"," ","t","u","r","k","e","y">>,
      <<"g","r","o","u","n","d"," ","c","h","i","c","k","e","n">>,
      <<"c","h","i","c","k","e","n"," ","s","t","o","c","k">>,
      <<"t","u","r","k","e","y"," ","s","t","o","c","k">>, <<"p","o","u","l","t","r","y">>,
      <<"f","o","w","l">> }

\* self.fish_keywords (ingredient_classifier.py:91-96)
fish_keywords ==
    { <<"s","a","l","m","o","n">>, <<"t","u","n","a">>, <<"c","o","d">>,
      <<"h","a","l","i","b","u","t">>, <<"t","i","l","a","p","i","a">>, <<"b","a","s","s">>,
      <<"t","r","o","u","t">>, <<"c","a","t","f","i","s","h">>,
      <<"m","a","c","k","e","r","e","l">>, <<"s","a","r","d","i","n","e">>,
      <<"a","n","c","h","o","v","i","e","s">>, <<"h","e","r","r","i","n","g">>,
      <<"s","o","l","e">>, <<"f","l","o","u","n","d","e","r">>,
      <<"m","a","h","i"," ","m","a","h","i">>, <<"s","n","a","p","p","e","r">>,
      <<"g","r","o","u","p","e","r">>, <<"s","w","o","r","d","f","i","s","h">>,
      <<"m","o","n","k","f","i","s","h">>, <<"h","a","d","d","o","c","k">>, <<"f","i","s","h">>,
      <<"f","i","s","h"," ","s","a","u","c","e">>, <<"f","i","s","h"," ","s","t","o","c","k">>,
      <<"f","i","s","h"," ","f","i","l","l","e","t">>,
      <<"s","m","o","k","e","d"," ","f","i","s","h">> }

\* self.seafood_keywords (ingredient_classifier.py:98-103)
seafood_keywords ==
    { <<"s","h","r","i","m","p">>, <<"l","o","b","s","t","e","r">>, <<"c","r","a","b">>,
      <<"s","c","a","l","l","o","p","s">>, <<"o","y","s","t","e","r","s">>,
      <<"m","u","s","s","e","l","s">>, <<"c","l","a","m","s">>, <<"s","q","u","i","d">>,
      <<"o","c","t","o","p","u","s">>, <<"c","a","l","a","m","a","r","i">>,
      <<"p","r","a","w","n","s">>, <<"c","r","a","y","f","i","s","h">>,
      <<"l","a","n","g","o","s","t","i","n","o">>, <<"s","e","a"," ","u","r","c","h","i","n">>,
      <<"a","b","a","l","o","n","e">>, <<"c","o","n","c","h">>, <<"w","h","e","l","k">>,
      <<"c","o","c","k","l","e","s">>, <<"b","a","r","n","a","c","l","e","s">>,
      <<"s","e","a","f","o","o","d">>, <<"s","h","e","l","l","f","i","s","h">>,
      <<"c","r","u","s","t","a","c","e","a","n">>, <<"m","o","l","l","u","s","k">> }

\* self.dairy_keywords (ingredient_classifier.py:106-114)
dairy_keywords ==
    { <<"m","i","l","k">>, <<"c","r","e","a","m">>, <<"b","u","t","t","e","r">>,
      <<"c","h","e","e","s","e">>, <<"y","o","g","u","r","t">>,
      <<"s","o","u","r"," ","c","r","e","a","m">>,
      <<"c","r","e","m","e"," ","f","r","a","i","c","h","e">>,
      <<"h","e","a","v","y"," ","c","r","e","a","m">>,
      <<"w","h","i","p","p","i","n","g"," ","c","r","e","a","m">>,
      <<"h","a","l","f"," ","a","n","d"," ","h","a","l","f">>,
      <<"b","u","t","t","e","r","m","i","l","k">>,
      <<"c","o","t","t","a","g","e"," ","c","h","e","e","s","e">>,
      <<"r","i","c","o","t","t","a">>, <<"m","o","z","z","a","r","e","l","l","a">>,
      <<"c","h","e","d","d","a","r">>, <<"s","w","i","s","s">>, <<"b","r","i","e">>,
      <<"c","a","m","e","m","b","e","r","t">>, <<"g","o","u","d","a">>,
      <<"p","a","r","m","e","s","a","n">>, <<"r","o","m","a","n","o">>, <<"f","e","t","a">>,
      <<"g","o","a","t"," ","c","h","e","e","s","e">>,
      <<"c","r","e","a","m"," ","c","h","e","e","s","e">>,
      <<"m","a","s","c","a","r","p","o","n","e">>, <<"w","h","e","y">>,
      <<"c","a","s","e","i","n">>, <<"l","a","c","t","o","s","e">>,
      <<"i","c","e"," ","c","r","e","a","m">>, <<"s","h","e","r","b","e","t">>,
      <<"f","r","o","z","e","n"," ","y","o","g","u","r","t">>,
      <<"c","o","n","d","e","n","s","e","d"," ","m","i","l","k">>,
      <<"e","v","a","p","o","r","a","t","e","d"," ","m","i","l","k">>, <<"d","a","i","r","y">>,
      <<"m","i","l","k"," ","p","o","w","d","e","r">>, <<"d","r","y"," ","m","i","l","k">>,
      <<"g","h","e","e">> }

\* self.egg_keywords (ingredient_classifier.py:117-121)
egg_keywords ==
    { <<"e","g","g">>, <<"e","g","g","s">>, <<"e","g","g"," ","w","h","i","t","e">>,
      <<"e","g","g"," ","y","o","l","k">>, <<"w","h","o","l","e"," ","e","g","g">>,
      <<"b","e","a","t","e","n"," ","e","g","g">>,
      <<"s","c","r","a","m","b","l","e","d"," ","e","g","g">>,
      <<"h","a","r","d"," ","b","o","i","l","e","d"," ","e","g","g">>,
      <<"m","a","y","o","n","n","a","i","s","e">>, <<"a","i","o","l","i">>,
      <<"h","o","l","l","a","n","d","a","i","s","e">>, <<"e","g","g"," ","w","a","s","h">>,
      <<"e","g","g"," ","s","u","b","s","t","i","t","u","t","e">>,
      <<"q","u","a","i","l"," ","e","g","g">>, <<"d","u","c","k"," ","e","g","g">> }

\* self.gluten_keywords (ingredient_classifier.py:124-134)
gluten_keywords ==
    { <<"w","h","e","a","t">>, <<"f","l","o","u","r">>,
      <<"a","l","l","-","p","u","r","p","o","s","e"," ","f","l","o","u","r">>,
      <<"b","r","e","a","d"," ","f","l","o","u","r">>,
      <<"c","a","k","e"," ","f","l","o","u","r">>,
      <<"w","h","o","l","e"," ","w","h","e","a","t"," ","f","l","o","u","r">>,
      <<"w","h","e","a","t"," ","g","e","r","m">>, <<"w","h","e","a","t"," ","b","r","a","n">>,
      <<"s","e","m","o","l","i","n","a">>, <<"b","a","r","l","e","y">>, <<"r","y","e">>,
      <<"s","p","e","l","t">>, <<"k","a","m","u","t">>, <<"b","u","l","g","u","r">>,
      <<"c","o","u","s","c","o","u","s">>, <<"f","a","r","r","o">>, <<"b","r","e","a","d">>,
      <<"p","a","s","t","a">>, <<"n","o","o","d","l","e","s">>,
      <<"s","p","a","g","h","e","t","t","i">>, <<"m","a","c","a","r","o","n","i">>,
      <<"l","i","n","g","u","i","n","e">>, <<"p","e","n","n","e">>,
      <<"r","i","g","a","t","o","n","i">>, <<"f","e","t","t","u","c","c","i","n","e">>,
      <<"l","a","s","a","g","n","a">>, <<"r","a","v","i","o","l","i">>,
      <<"g","n","o","c","c","h","i">>, <<"b","r","e","a","d","c","r","u","m","b","s">>,
      <<"p","a","n","k","o">>, <<"c","r","o","u","t","o","n","s">>,
      <<"c","r","a","c","k","e","r","s">>, <<"p","r","e","t","z","e","l","s">>,
      <<"b","e","e","r">>, <<"a","l","e">>, <<"l","a","g","e","r">>, <<"s","t","o","u","t">>,
      <<"w","h","e","a","t"," ","b","e","e","r">>, <<"m","a","l","t">>,
      <<"b","r","e","w","e","r","'","s"," ","y","e","a","s","t">>,
      <<"s","o","y"," ","s","a","u","c","e">>,
      <<"t","e","r","i","y","a","k","i"," ","s","a","u","c","e">>,
      <<"w","o","r","c","e","s","t","e","r","s","h","i","r","e"," ","s","a","u","c","e">>,
      <<"s","e","i","t","a","n">>,
      <<"v","i","t","a","l"," ","w","h","e","a","t"," ","g","l","u","t","e","n">>,
      <<"g","l","u","t","e","n">> }

\* self.nut_keywords (ingredient_classifier.py:137-144)
nut_keywords ==
    { <<"a","l","m","o","n","d","s">>, <<"w","a","l","n","u","t","s">>,
      <<"p","e","c","a","n","s">>, <<"h","a","z","e","l","n","u","t","s">>,
      <<"c","a","s","h","e","w","s">>, <<"p","i","s","t","a","c","h","i","o","s">>,
      <<"m","a","c","a","d","a","m","i","a">>, <<"b","r","a","z","i","l"," ","n","u","t","s">>,
      <<"p","i","n","e"," ","n","u","t","s">>, <<"c","h","e","s","t","n","u","t","s">>,
      <<"p","e","a","n","u","t","s">>, <<"p","e","a","n","u","t"," ","b","u","t","t","e","r">>,
      <<"a","l","m","o","n","d"," ","b","u","t","t","e","r">>,
      <<"c","a","s","h","e","w"," ","b","u","t","t","e","r">>, <<"t","a","h","i","n","i">>,
      <<"s","e","s","a","m","e"," ","s","e","e","d","s">>,
      <<"s","u","n","f","l","o","w","e","r"," ","s","e","e","d","s">>,
      <<"p","u","m","p","k","i","n"," ","s","e","e","d","s">>,
      <<"f","l","a","x"," ","s","e","e","d","s">>, <<"c","h","i","a"," ","s","e","e","d","s">>,
      <<"h","e","m","p"," ","s","e","e","d","s">>,
      <<"p","o","p","p","y"," ","s","e","e","d","s">>,
      <<"s","e","s","a","m","e"," ","o","i","l">>, <<"n","u","t">>, <<"n","u","t","s">>,
      <<"t","r","e","e"," ","n","u","t","s">>, <<"s","e","e","d">>, <<"s","e","e","d","s">> }

\* self.soy_keywords (ingredient_classifier.py:147-151)
soy_keywords ==
    { <<"s","o","y">>, <<"s","o","y","a">>, <<"s","o","y","b","e","a","n","s">>,
      <<"s","o","y"," ","s","a","u","c","e">>, <<"t","o","f","u">>, <<"t","e","m","p","e","h">>,
      <<"m","i","s","o">>, <<"s","o","y"," ","m","i","l","k">>,
      <<"s","o","y"," ","f","l","o","u","r">>, <<"s","o","y"," ","p","r","o","t","e","i","n">>,
      <<"e","d","a","m","a","m","e">>, <<"s","o","y","b","e","a","n"," ","o","i","l">>,
      <<"l","e","c","i","t","h","i","n">>, <<"s","o","y"," ","l","e","c","i","t","h","i","n">>,
      <<"t","a","m","a","r","i">>, <<"s","h","o","y","u">>, <<"n","a","t","t","o">> }

\* self.pork_keywords (ingredient_classifier.py:154-158)
pork_keywords ==
    { <<"p","o","r","k">>, <<"b","a","c","o","n">>, <<"h","a","m">>,
      <<"s","a","u","s","a","g","e">>, <<"p","e","p","p","e","r","o","n","i">>,
      <<"p","r","o","s","c","i","u","t","t","o">>, <<"c","h","o","r","i","z","o">>,
      <<"p","a","n","c","e","t","t","a">>, <<"g","u","a","n","c","i","a","l","e">>,
      <<"l","a","r","d">>, <<"p","o","r","k"," ","c","h","o","p">>,
      <<"p","o","r","k"," ","s","h","o","u","l","d","e","r">>,
      <<"p","o","r","k"," ","b","e","l","l","y">>,
      <<"p","o","r","k"," ","t","e","n","d","e","r","l","o","i","n">>,
      <<"g","r","o","u","n","d"," ","p","o","r","k">>, <<"p","o","r","k"," ","r","i","b","s">>,
      <<"p","o","r","k"," ","b","u","t","t">> }

\* self.shellfish_keywords (ingredient_classifier.py:160-163)
shellfish_keywords ==
    { <<"s","h","r","i","m","p">>, <<"l","o","b","s","t","e","r">>, <<"c","r","a","b">>,
      <<"s","c","a","l","l","o","p","s">>, <<"o","y","s","t","e","r","s">>,
      <<"m","u","s","s","e","l","s">>, <<"c","l","a","m","s">>, <<"s","q","u","i","d">>,
      <<"o","c","t","o","p","u","s">>, <<"c","a","l","a","m","a","r","i">>,
      <<"p","r","a","w","n","s">>, <<"c","r","a","y","f","i","s","h">>,
      <<"l","a","n","g","o","s","t","i","n","o">> }

\* The flag fields of IngredientProperties, in declaration order.
IngredientPropertiesDefaults ==
    [ is_meat |-> FALSE, is_poultry |-> FALSE, is_fish |-> FALSE,
      is_seafood |-> FALSE, is_dairy |-> FALSE, is_egg |-> FALSE,
      is_gluten_containing |-> FALSE, is_nut |-> FALSE, is_soy |-> FALSE,
      is_vegetarian |-> TRUE, is_vegan |-> TRUE,
      is_kosher |-> TRUE, is_halal |-> TRUE,
      allergens |-> <<>> ]

\* The "auto-populate allergens" statements of __post_init__, in order:
\* `if self.<flag> and <tag> not in self.allergens: self.allergens.append(<tag>)`
AllergenRules ==
    << <<"is_dairy", "dairy">>, <<"is_egg", "egg">>,
       <<"is_gluten_containing", "gluten">>, <<"is_nut", "nuts">>,
       <<"is_soy", "soy">>, <<"is_fish", "fish">>, <<"is_seafood", "shellfish">> >>

\* The allergen list after the statements i.. of AllergenRules have run on it.
RECURSIVE AutoPopulate(_, _, _)
AutoPopulate(p, allergens, i) ==
    IF i > Len(AllergenRules) THEN allergens
    ELSE CHOOSE r \in
           { AutoPopulate(p, next, i + 1) :
               next \in { IF p[AllergenRules[i][1]]
                             /\ ~(\E j \in 1..Len(allergens) :
                                     allergens[j] = AllergenRules[i][2])
                          THEN Append(allergens, AllergenRules[i][2])
                          ELSE allergens } } : TRUE

\* IngredientProperties.__post_init__: runs once, when the record is
\* constructed, on the field values the constructor was given.
PostInit(p0) ==
    [ p0 EXCEPT
        !.is_vegetarian =
            IF p0.is_meat \/ p0.is_poultry \/ p0.is_fish \/ p0.is_seafood
            THEN FALSE ELSE @,
        !.is_vegan =
            IF \/ p0.is_meat \/ p0.is_poultry \/ p0.is_fish \/ p0.is_seafood
               \/ p0.is_dairy \/ p0.is_egg
            THEN FALSE ELSE @,
        !.allergens = AutoPopulate(p0, @, 1) ]

\* IngredientProperties(): the dataclass constructor with every field defaulted.
NewIngredientProperties == PostInit(IngredientPropertiesDefaults)

\* A variant of classify_ingredient that clears is_vegetarian when it sets
\* is_meat but leaves is_vegan alone.
ClassifyIngredientMeatClearsVegetarian(ingredient) ==
    CHOOSE p \in
      { [ NewIngredientProperties EXCEPT
            !.is_meat = @ \/ AnyKeywordIn(s, meat_keywords),
            !.is_vegetarian = @ /\ ~AnyKeywordIn(s, meat_keywords) ] :
        s \in {Strip(Lower(ingredient))} } : TRUE

\* A variant of classify_ingredient that keeps props on the instance and
\* sets the flags on the record of the call before, instead of constructing
\* a new IngredientProperties().
ClassifyIngredientReusedProps(ingredient) ==
    CHOOSE p \in
      { [ props EXCEPT
            !.is_meat    = @ \/ AnyKeywordIn(s, meat_keywords)
                             \/ AnyKeywordIn(s, poultry_keywords),
            !.is_poultry = @ \/ AnyKeywordIn(s, poultry_keywords),
            !.is_fish    = @ \/ AnyKeywordIn(s, fish_keywords),
            !.is_seafood = @ \/ AnyKeywordIn(s, seafood_keywords),
            !.is_dairy   = @ \/ AnyKeywordIn(s, dairy_keywords),
            !.is_egg     = @ \/ AnyKeywordIn(s, egg_keywords),
            !.is_gluten_containing = @ \/ AnyKeywordIn(s, gluten_keywords),
            !.is_nut     = @ \/ AnyKeywordIn(s, nut_keywords),
            !.is_soy     = @ \/ AnyKeywordIn(s, soy_keywords),
            !.is_kosher  = @ /\ ~AnyKeywordIn(s, pork_keywords)
                             /\ ~AnyKeywordIn(s, shellfish_keywords),
            !.is_halal   = @ /\ ~AnyKeywordIn(s, pork_keywords) ] :
        s \in {Strip(Lower(ingredient))},
        props \in { IF returned = <<>> THEN NewIngredientProperties
                    ELSE returned[Len(returned)].props } } : TRUE

\* A variant of classify_ingredient in which a shellfish keyword clears
\* is_halal as well.
ClassifyIngredientShellfishNotHalal(ingredient) ==
    CHOOSE p \in
      { [ NewIngredientProperties EXCEPT
            !.is_meat    = @ \/ AnyKeywordIn(s, meat_keywords)
                             \/ AnyKeywordIn(s, poultry_keywords),
            !.is_poultry = @ \/ AnyKeywordIn(s, poultry_keywords),
            !.is_fish    = @ \/ AnyKeywordIn(s, fish_keywords),
            !.is_seafood = @ \/ AnyKeywordIn(s, seafood_keywords),
            !.is_dairy   = @ \/ AnyKeywordIn(s, dairy_keywords),
            !.is_egg     = @ \/ AnyKeywordIn(s, egg_keywords),
            !.is_gluten_containing = @ \/ AnyKeywordIn(s, gluten_keywords),
            !.is_nut     = @ \/ AnyKeywordIn(s, nut_keywords),
            !.is_soy     = @ \/ AnyKeywordIn(s, soy_keywords),
            !.is_kosher  = @ /\ ~AnyKeywordIn(s, pork_keywords)
                             /\ ~AnyKeywordIn(s, shellfish_keywords),
            !.is_halal   = @ /\ ~AnyKeywordIn(s, pork_keywords)
                             /\ ~AnyKeywordIn(s, shellfish_keywords) ] :
        s \in {Strip(Lower(ingredient))} } : TRUE

\* IngredientClassifier.classify_ingredient.  props = IngredientProperties()
\* is constructed first (__post_init__ runs then, on the defaults) and the
\* flags are assigned to it afterwards, one `if any(...)` statement per
\* keyword set; nothing runs __post_init__ again.  The assignments touch
\* different fields or assign the same constant, so their combined effect
\* is written field by field; s is ingredient.lower().strip(), evaluated once.
ClassifyIngredient(ingredient) ==
    CHOOSE p \in
      { [ NewIngredientProperties EXCEPT
            !.is_meat    = @ \/ AnyKeywordIn(s, meat_keywords)
                             \/ AnyKeywordIn(s, poultry_keywords),
            !.is_poultry = @ \/ AnyKeywordIn(s, poultry_keywords),
            !.is_fish    = @ \/ AnyKeywordIn(s, fish_keywords),
            !.is_seafood = @ \/ AnyKeywordIn(s, seafood_keywords),
            !.is_dairy   = @ \/ AnyKeywordIn(s, dairy_keywords),
            !.is_egg     = @ \/ AnyKeywordIn(s, egg_keywords),
            !.is_gluten_containing = @ \/ AnyKeywordIn(s, gluten_keywords),
            !.is_nut     = @ \/ AnyKeywordIn(s, nut_keywords),
            !.is_soy     = @ \/ AnyKeywordIn(s, soy_keywords),
            !.is_kosher  = @ /\ ~AnyKeywordIn(s, pork_keywords)
                             /\ ~AnyKeywordIn(s, shellfish_keywords),
            !.is_halal   = @ /\ ~AnyKeywordIn(s, pork_keywords) ] :
        s \in {Strip(Lower(ingredient))} } : TRUE

\* The ingredient names the model classifies.
beef           == <<"b","e","e","f">>
bacon          == <<"b","a","c","o","n">>
chicken_breast == <<"c","h","i","c","k","e","n"," ","b","r","e","a","s","t">>
salmon         == <<"s","a","l","m","o","n">>
Shrimp         == <<" ","S","h","r","i","m","p">>
whole_milk     == <<"w","h","o","l","e"," ","m","i","l","k">>
eggs           == <<"e","g","g","s">>
flour          == <<"f","l","o","u","r">>
peanut_butter  == <<"p","e","a","n","u","t"," ","b","u","t","t","e","r">>
tofu           == <<"T","o","f","u">>
fish_sauce     == <<"f","i","s","h"," ","s","a","u","c","e">>
graham_cracker == <<"g","r","a","h","a","m"," ","c","r","a","c","k","e","r">>
water          == <<"w","a","t","e","r">>

ClassifierInputs ==
    { beef, bacon, chicken_breast, salmon, Shrimp, whole_milk, eggs, flour,
      peanut_butter, tofu, fish_sauce, graham_cracker, water }

\* get_classifier(): the module-level instance is created on first use.
GetClassifier ==
    /\ classifier = "None"
    /\ classifier' = "IngredientClassifier"
    /\ UNCHANGED <<returned, normVars, textVars, loader, connection>>

\* The module-level classify_ingredient(ingredient): get_classifier(), then
\* the instance's classify_ingredient; the caller keeps the returned record.
ClassifyIngredientCall ==
    /\ Len(returned) < MaxClassifyCalls
    /\ \E ingredient \in ClassifierInputs :
          returned' = Append(returned, [ ingredient |-> ingredient,
                                         props |-> ClassifyIngredient(ingredient) ])
    /\ classifier' = "IngredientClassifier"
    /\ UNCHANGED <<normVars, textVars, loader, connection>>

\* The module-level classify_ingredients(ingredients): get_classifier(), then
\* classify_batch, `{ingredient: self.classify_ingredient(ingredient) for
\* ingredient in ingredients}`.  A dict keeps one entry per key, in the order
\* the keys were first inserted; the caller keeps the records of the dict.
\* The lists are of at most two of four names.
ClassifyIngredientsCall ==
    /\ \E keys \in UNION { [ 1..n -> { beef, bacon, Shrimp, water } ] : n \in 0..2 } :
       \E firsts \in { { i \in 1..Len(keys) : \A j \in 1..(i - 1) : keys[j] # keys[i] } } :
          /\ Len(returned) + Cardinality(firsts) <= MaxClassifyCalls
          /\ returned' = returned \o
                [ n \in 1..Cardinality(firsts) |->
                    CHOOSE r \in
                      { [ ingredient |-> keys[i], props |-> ClassifyIngredient(keys[i]) ] :
                          i \in { f \in firsts :
                                    Cardinality({ g \in firsts : g <= f }) = n } } : TRUE ]
    /\ classifier' = "IngredientClassifier"
    /\ UNCHANGED <<normVars, textVars, loader, connection>>

-----------------------------------------------------------------------------
(* The embedding model and cosine similarity.                              *)
(*                                                                         *)
(* SentenceTransformer.encode is an input of the program: the model draws  *)
(* one vector per name from a small set of integer vectors.  normalize()   *)
(* of sklearn and normalize_embeddings=True rescale a vector to unit       *)
(* length and cosine_similarity divides by both lengths again, so only     *)
(* the direction of a stored vector matters; the model keeps the integer   *)
(* vector and compares cosines exactly, by cross-multiplying the squares   *)
(* (every component is >= 0, so every dot product is >= 0).                *)

Vectors == { <<1, 0>>, <<2, 1>>, <<1, 1>>, <<1, 2>> }

Dot(a, b) == a[1] * b[1] + a[2] * b[2]

\* cosine_similarity(v, e1) > cosine_similarity(v, e2)
SimGreater(v, e1, e2) ==
    Dot(v, e1) * Dot(v, e1) * Dot(e2, e2) > Dot(v, e2) * Dot(v, e2) * Dot(e1, e1)

\* cosine_similarity(v, e) > thr / 100
AboveThreshold(v, e, thr) ==
    100 * 100 * Dot(v, e) * Dot(v, e) > thr * thr * Dot(v, v) * Dot(e, e)

\* int(np.argmax(sims)) + 1: the first cluster of maximal similarity to v.
ArgMax(v, embs) ==
    CHOOSE i \in 1..Len(embs) :
        /\ \A j \in 1..Len(embs) : ~SimGreater(v, embs[j], embs[i])
        /\ \A j \in 1..(i - 1) : SimGreater(v, embs[i], embs[j])

\* get_embedding(text): the model is applied to text.lower().strip().
GetEmbedding(text) == encode[Strip(Lower(text))]

-----------------------------------------------------------------------------
(* The ingredient names given to the normalizers.                          *)

warm_water == <<"w","a","r","m"," ","w","a","t","e","r">>
hot_water  == <<"h","o","t"," ","w","a","t","e","r">>
Water_raw  == <<" ","W","a","t","e","r"," ">>

RawNames == { water, warm_water, hot_water, Water_raw }
Keys     == { Strip(Lower(r)) : r \in RawNames }

Thresholds == { 50, 75, 90 }

\* dict[key] = value
DictSet(d, key, value) ==
    [k \in (DOMAIN d) \cup {key} |-> IF k = key THEN value ELSE d[k]]

\* dict.get(key, default)
DictGet(d, key, default) == IF key \in DOMAIN d THEN d[key] ELSE default

-----------------------------------------------------------------------------
(* ingredient_embedder_new.py and src/utils/ingredient_embedder.py:        *)
(* IngredientNormalizer.normalize, one name at a time.                     *)

\* A variant of the choice that keeps the longer of the two names.
PreferShorterKeepsLonger(previous, ingredient) ==
    IF Len(previous) <= Len(ingredient) THEN ingredient ELSE previous

\* `previous if len(previous) <= len(ingredient) else ingredient`
PreferShorter(previous, ingredient) ==
    IF Len(previous) <= Len(ingredient) THEN previous ELSE ingredient

\* A variant of the first-cluster branch that returns without recording the
\* name in self.canonical.
FirstClusterUnrecorded(st, ingredient, vector) ==
    [ canonical  |-> st.canonical,
      embeddings |-> Append(st.embeddings, vector),
      names      |-> Append(st.names, ingredient),
      canon      |-> ingredient,
      joined     |-> 0 ]

\* `if not self.embeddings:` the name is the first cluster and its own
\* canonical name.  The result is the normalizer's fields afterwards, the
\* canonical name chosen and the cluster joined (0: a cluster was started).
FirstCluster(st, ingredient, vector) ==
    [ canonical  |-> DictSet(st.canonical, ingredient, ingredient),
      embeddings |-> Append(st.embeddings, vector),
      names      |-> Append(st.names, ingredient),
      canon      |-> ingredient,
      joined     |-> 0 ]

\* The `else` of `if best_score > self.threshold:` the name starts a cluster.
NewCluster(st, ingredient, vector) ==
    [ canonical  |-> DictSet(st.canonical, ingredient, ingredient),
      embeddings |-> Append(st.embeddings, vector),
      names      |-> Append(st.names, ingredient),
      canon      |-> ingredient,
      joined     |-> 0 ]

\* `if best_score > self.threshold:` the name joins cluster best_idx and is
\* recorded under `canon`; self.names and self.embeddings are not assigned.
JoinCluster(st, ingredient, best_idx, canon) ==
    [ canonical  |-> DictSet(st.canonical, ingredient, canon),
      embeddings |-> st.embeddings,
      names      |-> st.names,
      canon      |-> canon,
      joined     |-> best_idx ]

\* A variant of the clustering that compares a name with the first cluster
\* only, instead of the cluster of highest similarity.
ClusterStepFirstOnly(st, ingredient, vector, thr, shortest) ==
    IF st.embeddings = <<>>
    THEN FirstCluster(st, ingredient, vector)
    ELSE IF AboveThreshold(vector, st.embeddings[1], thr)
         THEN JoinCluster(st, ingredient, 1,
                          IF shortest THEN PreferShorter(st.names[1], ingredient)
                                      ELSE st.names[1])
         ELSE NewCluster(st, ingredient, vector)

\* The clustering of one name: the body of normalize() in
\* ingredient_embedder_new.py and src/utils/ingredient_embedder.py and of the
\* loop of build_embeddings in utils/ingredient_embedder.py.  `shortest` says
\* whether the class prefers the shorter name (ingredient_embedder_new.py,
\* utils/ingredient_embedder.py) or takes the stored one (src/utils).
ClusterStep(st, ingredient, vector, thr, shortest) ==
    IF st.embeddings = <<>>
    THEN FirstCluster(st, ingredient, vector)
    ELSE LET best_idx == ArgMax(vector, st.embeddings)
             previous == st.names[best_idx]
         IN  IF AboveThreshold(vector, st.embeddings[best_idx], thr)
             THEN JoinCluster(st, ingredient, best_idx,
                              IF shortest THEN PreferShorter(previous, ingredient)
                                          ELSE previous)
             ELSE NewCluster(st, ingredient, vector)

\* The normalizer's fields as one record.
Self == [ canonical |-> canonical, embeddings |-> embeddings, names |-> names ]

\* One normalize() call as the history records it.
Call(raw, result, joined) == [ raw |-> raw, result |-> result, joined |-> joined ]

\* ingredient_embedder_new.py: IngredientNormalizer.normalize(raw).
NormalizeNew ==
    /\ impl = "new"
    /\ Len(history) < MaxCalls
    /\ \E raw \in RawNames :
       \E ingredient \in {Strip(Lower(raw))} :
       \E vector \in {GetEmbedding(ingredient)} :
       \E r \in {ClusterStep(Self, ingredient, vector, threshold, TRUE)} :
          /\ canonical' = r.canonical
          /\ embeddings' = r.embeddings
          /\ names' = r.names
          /\ history' = Append(history, Call(raw, r.canon, r.joined))
    /\ UNCHANGED <<impl, encode, threshold, to_embed, clsVars, textVars, loader, connection>>

\* src/utils/ingredient_embedder.py: IngredientNormalizer.normalize(raw).
NormalizeFirstSeen ==
    /\ impl = "first_seen"
    /\ Len(history) < MaxCalls
    /\ \E raw \in RawNames :
       \E ingredient \in {Strip(Lower(raw))} :
       \E vector \in {GetEmbedding(ingredient)} :
       \E r \in {ClusterStep(Self, ingredient, vector, threshold, FALSE)} :
          /\ canonical' = r.canonical
          /\ embeddings' = r.embeddings
          /\ names' = r.names
          /\ history' = Append(history, Call(raw, r.canon, r.joined))
    /\ UNCHANGED <<impl, encode, threshold, to_embed, clsVars, textVars, loader, connection>>

-----------------------------------------------------------------------------
(* utils/ingredient_embedder.py: the staged IngredientNormalizer.          *)

\* sorted(list(s)) for a set of strings.
RECURSIVE Sorted(_)
Sorted(s) ==
    IF s = {} THEN <<>>
    ELSE CHOOSE r \in { <<first>> \o Sorted(s \ {first}) :
                          first \in {x \in s : \A y \in s \ {x} : StrLess(x, y)} } : TRUE

\* The loop of build_embeddings over zip(texts, vectors): texts[i] is
\* processed on the state the names before it left.
RECURSIVE BuildLoop(_, _, _)
BuildLoop(st, texts, thr) ==
    IF texts = <<>> THEN st
    ELSE CHOOSE r \in { BuildLoop(next, Tail(texts), thr) :
                          next \in {ClusterStep(st, Head(texts), encode[Head(texts)],
                                                thr, TRUE)} } : TRUE

\* A variant of stage_ingredient that stages the name whether or not it has
\* a recorded canonical name.
StageAlways(pending, raw) == pending \cup { Strip(Lower(raw)) }

\* A variant of stage_ingredient that keeps only the name staged last.
StageReplaces(pending, raw) ==
    IF Strip(Lower(raw)) \notin DOMAIN canonical
    THEN { Strip(Lower(raw)) }
    ELSE pending

\* The pending set after stage_ingredient(raw): to_embed.add(ing) when ing
\* is not a key of self.canonical.
Stage(pending, raw) ==
    CHOOSE r \in { IF ing \notin DOMAIN canonical THEN pending \cup {ing} ELSE pending :
                     ing \in { Strip(Lower(raw)) } } : TRUE

\* IngredientNormalizer.stage_ingredient(raw)
StageIngredient ==
    /\ impl = "staged"
    /\ \E raw \in RawNames : to_embed' = Stage(to_embed, raw)
    /\ UNCHANGED <<impl, encode, threshold, canonical, embeddings, names,
                   history, clsVars, textVars, loader, connection>>

\* IngredientNormalizer.build_embeddings()
BuildEmbeddings ==
    /\ impl = "staged"
    /\ IF to_embed = {}
       THEN UNCHANGED <<canonical, embeddings, names, to_embed>>
       ELSE \E texts \in {Sorted(to_embed)} :
            \E r \in {BuildLoop(Self, texts, threshold)} :
               /\ canonical' = r.canonical
               /\ embeddings' = r.embeddings
               /\ names' = r.names
               /\ to_embed' = {}
    /\ UNCHANGED <<impl, encode, threshold, history, clsVars, textVars, loader, connection>>

\* IngredientNormalizer.normalize(raw) of the staged class: a lookup.
NormalizeStaged ==
    /\ impl = "staged"
    /\ Len(history) < MaxLookups
    /\ \E raw \in RawNames :
          LET ing == Strip(Lower(raw))
          IN  history' = Append(history, Call(raw, DictGet(canonical, ing, ing), 0))
    /\ UNCHANGED <<impl, encode, threshold, canonical, embeddings, names,
                   to_embed, clsVars, textVars, loader, connection>>

-----------------------------------------------------------------------------
(* The regex-based ingredient parser: split_ingredients and                *)
(* parse_ingredient.                                                       *)
(*                                                                         *)
(* A position in a string is the number of characters before it, from 0    *)
(* to Len(s).  The regular expressions are computed as Python's            *)
(* backtracking matcher computes them: a greedy quantifier tries its       *)
(* longest repetition first, an alternation its leftmost branch first,     *)
(* an optional group is tried before it is skipped, and the match          *)
(* returned is the first that succeeds in that order.                      *)

Digits == {"0", "1", "2", "3", "4", "5", "6", "7", "8", "9"}

\* [a-zA-Z]
Letters == { UpperChars[i] : i \in 1..Len(UpperChars) }
               \cup { LowerChars[i] : i \in 1..Len(LowerChars) }

\* The position where the longest run of characters of cls after position
\* i ends: i itself when the next character is not in cls.
RECURSIVE RunEnd(_, _, _)
RunEnd(s, i, cls) ==
    IF i < Len(s) /\ s[i + 1] \in cls THEN RunEnd(s, i + 1, cls) ELSE i

\* str.strip(chars): drop leading and trailing characters of chars.
StripChars(s, chars) ==
    LET keep == {i \in 1..Len(s) : s[i] \notin chars}
    IN  IF keep = {} THEN <<>>
        ELSE LET lo == CHOOSE i \in keep : \A j \in keep : i <= j
                 hi == CHOOSE i \in keep : \A j \in keep : j <= i
             IN  SubSeq(s, lo, hi)

\* The character at position i + 1 of s is c.
NextIs(s, i, c) == i < Len(s) /\ s[i + 1] = c

\* The ways \d+ matches after position p, as ends of branch alt of the
\* amount group.
DigitEnds(alt, s, p) ==
    { [alt |-> alt, end |-> e] : e \in (p + 1)..RunEnd(s, p, Digits) }

\* The ways the optional group (?P<amount>\d+\s\d+/\d+|\d+/\d+|\d+\.\d+|\d+)?
\* matches at the start of s: the branch taken (5 when the group is
\* skipped) and the position where it ends.  r1 is the end of the leading
\* run of digits; a shorter first \d+ is followed by a digit, which none of
\* the branches accepts.
AmountMatches(s) ==
    UNION { (IF r1 >= 1 /\ r1 < Len(s) /\ s[r1 + 1] \in Whitespace
             THEN UNION { IF r2 > r1 + 1 /\ NextIs(s, r2, "/")
                          THEN DigitEnds(1, s, r2 + 1)
                          ELSE {} : r2 \in {RunEnd(s, r1 + 1, Digits)} }
             ELSE {})
            \cup (IF r1 >= 1 /\ NextIs(s, r1, "/")
                  THEN DigitEnds(2, s, r1 + 1) ELSE {})
            \cup (IF r1 >= 1 /\ NextIs(s, r1, ".")
                  THEN DigitEnds(3, s, r1 + 1) ELSE {})
            \cup { [alt |-> 4, end |-> e] : e \in 1..r1 }
            \cup { [alt |-> 5, end |-> 0] }
            : r1 \in {RunEnd(s, 0, Digits)} }

\* The ways \s*(?P<unit>[a-zA-Z]+)?\s+(?P<ingredient>.+)$ matches after
\* position a: <<b, c, d>> where \s* ends at b, the unit group at c (c = b
\* when it is skipped) and \s+ at d; .+ takes the rest, which has to be
\* non-empty and free of line breaks.
TailMatches(s, a) ==
    UNION { UNION { { <<b, c, d>> :
                      d \in { e \in (c + 1)..RunEnd(s, c, Whitespace) :
                                 /\ e < Len(s)
                                 /\ \A k \in (e + 1)..Len(s) : s[k] # "\n" } }
                    : c \in b..RunEnd(s, b, Letters) }
            : b \in a..RunEnd(s, a, Whitespace) }

\* The matcher tries m before o.
TriedBefore(m, o) ==
    \/ m.alt < o.alt
    \/ m.alt = o.alt /\ m.end > o.end
    \/ m.alt = o.alt /\ m.end = o.end /\ m.b > o.b
    \/ m.alt = o.alt /\ m.end = o.end /\ m.b = o.b /\ m.c > o.c
    \/ m.alt = o.alt /\ m.end = o.end /\ m.b = o.b /\ m.c = o.c /\ m.d > o.d

\* All the ways PATTERN matches s, a string without leading whitespace (the
\* callers strip it, so the leading \s* matches nothing).
PatternMatches(s) ==
    UNION { { [alt |-> am.alt, end |-> am.end, b |-> t[1], c |-> t[2], d |-> t[3]] :
              t \in TailMatches(s, am.end) }
            : am \in AmountMatches(s) }

\* PATTERN.match(s): None, or the groups of the first match.
PATTERN(s) ==
    CHOOSE r \in
      { IF ms = {}
        THEN [ matched |-> FALSE, amount |-> <<>>, unit |-> <<>>, ingredient |-> <<>> ]
        ELSE CHOOSE g \in
               { [ matched |-> TRUE,
                   amount |-> SubSeq(s, 1, m.end),
                   unit |-> SubSeq(s, m.b + 1, m.c),
                   ingredient |-> SubSeq(s, m.d + 1, Len(s)) ]
                 : m \in { x \in ms : \A o \in ms : o = x \/ TriedBefore(x, o) } }
               : TRUE
        : ms \in {PatternMatches(s)} } : TRUE

\* What a call returns: a tuple of strings, or a single string.
Tuple(amount, unit, name) == [ type |-> "tuple", value |-> <<amount, unit, name>> ]
Str(name) == [ type |-> "str", value |-> name ]

\* A variant of parse_ingredient whose fallback returns the input as it was
\* given, without strip().
ParseIngredientFallbackUntrimmed(ingredient_str) ==
    CHOOSE r \in
      { IF m.matched
        THEN Tuple(m.amount, m.unit, Strip(m.ingredient))
        ELSE Tuple(<<>>, <<>>, ingredient_str)
        : m \in {PATTERN(Strip(ingredient_str))} } : TRUE

\* A variant of parse_ingredient that leaves the unit word in the name.
ParseIngredientUnitInName(ingredient_str) ==
    CHOOSE r \in
      { IF m.matched
        THEN Tuple(m.amount, <<>>, Strip(m.unit \o <<" ">> \o m.ingredient))
        ELSE Tuple(<<>>, <<>>, Strip(ingredient_str))
        : m \in {PATTERN(Strip(ingredient_str))} } : TRUE

\* parse_ingredient of ingredient_parser_new_ds.py and of
\* ingredient_embedder_new.py: (amount, unit, ingredient).
ParseIngredient(ingredient_str) ==
    CHOOSE r \in
      { IF m.matched
        THEN Tuple(m.amount, m.unit, Strip(m.ingredient))
        ELSE Tuple(<<>>, <<>>, Strip(ingredient_str))
        : m \in {PATTERN(Strip(ingredient_str))} } : TRUE

\* parse_ingredient of utils/ingredient_embedder.py and of
\* ingredient_parser.py: the tuple return is commented out and a match
\* returns the ingredient alone.
ParseIngredientName(ingredient_str) ==
    CHOOSE r \in
      { IF m.matched
        THEN Str(Strip(m.ingredient))
        ELSE Tuple(<<>>, <<>>, Strip(ingredient_str))
        : m \in {PATTERN(Strip(ingredient_str))} } : TRUE

\* A variant of the substitution that puts the marker only where the digit
\* follows the comma at once.
RECURSIVE MarkAdjacentDigit(_, _)
MarkAdjacentDigit(s, i) ==
    IF i > Len(s) THEN <<>>
    ELSE IF s[i] = "," /\ i < Len(s) /\ s[i + 1] \in Digits
         THEN <<",", "|">> \o MarkAdjacentDigit(s, i + 1)
         ELSE <<s[i]>> \o MarkAdjacentDigit(s, i + 1)

\* re.sub(r'(?<=,)\s*(?=\d+[\d\s\/\.]*)', '|', s) from position i on: after a
\* comma, the whitespace up to a digit is replaced by the marker.  \s*
\* has to take the whole run of whitespace for a digit to follow it.
RECURSIVE Mark(_, _)
Mark(s, i) ==
    IF i > Len(s) THEN <<>>
    ELSE CHOOSE r \in
           { IF s[i] = "," /\ j < Len(s) /\ s[j + 1] \in Digits
             THEN <<",", "|">> \o Mark(s, j + 1)
             ELSE <<s[i]>> \o Mark(s, i + 1)
             : j \in {RunEnd(s, i, Whitespace)} } : TRUE

\* str.split(sep) for a one-character sep.
RECURSIVE Split(_, _)
Split(s, sep) ==
    IF \E i \in 1..Len(s) : s[i] = sep
    THEN CHOOSE r \in
           { <<SubSeq(s, 1, i - 1)>> \o Split(SubSeq(s, i + 1, Len(s)), sep)
             : i \in { k \in 1..Len(s) :
                          s[k] = sep /\ \A j \in 1..(k - 1) : s[j] # sep } } : TRUE
    ELSE <<s>>

\* [f(part) for part in parts if part.strip()] with f = part.strip(" ,")
RECURSIVE TrimParts(_)
TrimParts(parts) ==
    IF parts = <<>> THEN <<>>
    ELSE IF Strip(Head(parts)) # <<>>
         THEN <<StripChars(Head(parts), {" ", ","})>> \o TrimParts(Tail(parts))
         ELSE TrimParts(Tail(parts))

\* A variant of split_ingredients that splits at every comma.
SplitIngredientsEveryComma(text) ==
    TrimParts(Split([i \in 1..Len(Strip(text)) |->
                        IF Strip(text)[i] = "," THEN "|" ELSE Strip(text)[i]], "|"))

\* split_ingredients(text)
SplitIngredients(text) == TrimParts(Split(Mark(Strip(text), 1), "|"))

\* The strings handed to the parser: every string of at most MaxLen
\* characters of ParserChars, the phrases made of an amount, a word and a
\* name, and the phrases of the documentation.
ParserChars == {"2", "/", ".", " ", "\n", "a", ",", "|"}

tomato_phrase == <<"2"," ","d","i","c","e","d"," ","d","r","a","i","n","e","d"," ","o","i","l","-","p","a","c","k","e","d"," ","s","u","n","-","d","r","i","e","d"," ","t","o","m","a","t","o","e","s">>
tomato_name   == <<"d","r","a","i","n","e","d"," ","o","i","l","-","p","a","c","k","e","d"," ","s","u","n","-","d","r","i","e","d"," ","t","o","m","a","t","o","e","s">>
water_eggs    == <<"1"," ","c","u","p"," ","w","a","r","m"," ","w","a","t","e","r",","," ","2"," ","e","g","g","s">>
garlic_phrase == <<"1"," ","l","a","r","g","e"," ","g","a","r","l","i","c"," ","c","l","o","v","e",","," ","c","r","u","s","h","e","d",",">>

Amounts    == { <<"2">>, <<"1",".","5">>, <<"1","/","2">>, <<"1"," ","1","/","2">> }
Separators == { <<" ">>, <<"\t">>, <<" "," ">> }
UnitWords  == { <<"c","u","p">>, <<"d","i","c","e","d">> }
NameTexts  == { eggs, warm_water, <<"a","\n","b">>, tomato_name }

Phrases ==
    { a \o s1 \o w \o s2 \o t :
        a \in Amounts, s1 \in Separators, w \in UnitWords,
        s2 \in Separators, t \in NameTexts }

ParserInputs ==
    UNION { [1..n -> ParserChars] : n \in 0..MaxLen }
      \cup Phrases \cup { tomato_phrase, water_eggs, garlic_phrase }

\* ingredient_parser_new_ds.parse_ingredient is called on the string at
\* hand, and the caller keeps what it returns.
ParseIngredientCall ==
    /\ parsed.arg \in ParserInputs
    /\ parsed' = [ fn |-> "parse_ingredient",
                   module |-> "ingredient_parser_new_ds",
                   arg |-> parsed.arg,
                   result |-> ParseIngredient(parsed.arg) ]
    /\ UNCHANGED <<clsVars, normVars, loader, connection, meal_embeddings, meal_threshold, meal_type,
                   ingredients, has_price, loaded, extracted, price_loader>>

\* utils.ingredient_embedder.parse_ingredient is called on the string at hand.
ParseIngredientNameCall ==
    /\ parsed.arg \in ParserInputs
    /\ parsed' = [ fn |-> "parse_ingredient",
                   module |-> "utils.ingredient_embedder",
                   arg |-> parsed.arg,
                   result |-> ParseIngredientName(parsed.arg) ]
    /\ UNCHANGED <<clsVars, normVars, loader, connection, meal_embeddings, meal_threshold, meal_type,
                   ingredients, has_price, loaded, extracted, price_loader>>

\* split_ingredients is called on the string at hand.
SplitIngredientsCall ==
    /\ parsed.arg \in ParserInputs
    /\ parsed' = [ fn |-> "split_ingredients",
                   module |-> "utils.ingredient_embedder",
                   arg |-> parsed.arg,
                   result |-> SplitIngredients(parsed.arg) ]
    /\ UNCHANGED <<clsVars, normVars, loader, connection, meal_embeddings, meal_threshold, meal_type,
                   ingredients, has_price, loaded, extracted, price_loader>>

-----------------------------------------------------------------------------
(* Meal types: MealTypeEmbedder (utils/meal_type_embedder.py) and the      *)
(* keyword rule of RecipeLoader._assign_meal_type.                         *)

\* self.meal_types, as the source spells them.
meal_types == <<"Breakfast", "Lunch", "Dinner", "Desert", "Drink">>

\* The thresholds an embedder is constructed with, in hundredths; 30 is the
\* default of __init__.
MealThresholds == { 30, 80, 95 }

\* The vectors the sentence model returns for the five labels.
LabelVectors == { <<1, 0>>, <<2, 1>>, <<1, 2>> }

\* A value of Python: a str with its characters, or None.
None == [ type |-> "NoneType", value |-> <<>> ]

\* The titles handed to the meal-type classifiers: None, "", "Pancakes",
\* "Turkey sandwich", " Steak", "Banana smoothie" and "Chocolate cake".
Titles ==
    { None, Str(<<>>),
      Str(<<"P","a","n","c","a","k","e","s">>),
      Str(<<"T","u","r","k","e","y"," ","s","a","n","d","w","i","c","h">>),
      Str(<<" ","S","t","e","a","k">>),
      Str(<<"B","a","n","a","n","a"," ","s","m","o","o","t","h","i","e">>),
      Str(<<"C","h","o","c","o","l","a","t","e"," ","c","a","k","e">>) }

\* cosine_similarity(v, e) >= thr / 100
AtLeastThreshold(v, e, thr) ==
    100 * 100 * Dot(v, e) * Dot(v, e) >= thr * thr * Dot(v, v) * Dot(e, e)

\* A variant of classify_bulk that asks for a score above the threshold.
ClassifyBulkAboveThreshold(vectors, label_embeddings, thr) ==
    [ i \in 1..Len(vectors) |->
        CHOOSE r \in
          { IF AboveThreshold(vectors[i], label_embeddings[best_idx], thr)
            THEN meal_types[best_idx]
            ELSE "Other"
            : best_idx \in {ArgMax(vectors[i], label_embeddings)} } : TRUE ]

\* classify_bulk(texts), from the vectors the model encodes the texts to:
\* per row the label of the first maximal similarity, or "Other".
ClassifyBulk(vectors, label_embeddings, thr) ==
    [ i \in 1..Len(vectors) |->
        CHOOSE r \in
          { IF AtLeastThreshold(vectors[i], label_embeddings[best_idx], thr)
            THEN meal_types[best_idx]
            ELSE "Other"
            : best_idx \in {ArgMax(vectors[i], label_embeddings)} } : TRUE ]

\* MealTypeEmbedder.classify(text) on the title at hand:
\* classify_bulk([text])[0].  The vector is what the sentence model
\* returns for to_encode, `text.lower().strip() if isinstance(text, str)
\* else ""`.
Classify ==
    /\ meal_threshold > 0
    /\ \E vector \in Vectors :
          meal_type' = [ fn |-> "classify",
                         title |-> meal_type.title,
                         to_encode |-> IF meal_type.title.type = "str"
                                       THEN Strip(Lower(meal_type.title.value))
                                       ELSE <<>>,
                         vector |-> vector,
                         result |-> ClassifyBulk(<<vector>>, meal_embeddings,
                                                 meal_threshold)[1] ]
    /\ UNCHANGED <<clsVars, normVars, loader, connection, parsed, meal_embeddings, meal_threshold,
                   ingredients, has_price, loaded, extracted, price_loader>>

\* categorize(name) of _assign_meal_type: the keyword lists are tried in
\* this order.
Categorize(name) ==
    CHOOSE r \in
      { IF AnyKeywordIn(n,
             { <<"b","r","e","a","k","f","a","s","t">>,
               <<"p","a","n","c","a","k","e">>,
               <<"w","a","f","f","l","e">>,
               <<"c","e","r","e","a","l">>,
               <<"o","a","t","m","e","a","l">>,
               <<"o","m","e","l","e","t">>,
               <<"o","m","e","l","e","t","t","e">>,
               <<"b","a","c","o","n">>,
               <<"t","o","a","s","t">> })
        THEN "Breakfast"
        ELSE IF AnyKeywordIn(n,
             { <<"l","u","n","c","h">>,
               <<"s","a","n","d","w","i","c","h">>,
               <<"s","a","l","a","d">>,
               <<"w","r","a","p">>,
               <<"s","o","u","p">> })
        THEN "Lunch"
        ELSE IF AnyKeywordIn(n,
             { <<"d","i","n","n","e","r">>,
               <<"r","o","a","s","t">>,
               <<"s","t","e","a","k">>,
               <<"p","a","s","t","a">>,
               <<"c","a","s","s","e","r","o","l","e">> })
        THEN "Dinner"
        ELSE IF AnyKeywordIn(n,
             { <<"c","o","c","k","t","a","i","l">>,
               <<"d","r","i","n","k">>,
               <<"s","m","o","o","t","h","i","e">>,
               <<"j","u","i","c","e">>,
               <<"c","o","f","f","e","e">>,
               <<"t","e","a">>,
               <<"w","i","n","e">>,
               <<"b","e","e","r">>,
               <<"l","i","q","u","o","r">>,
               <<"w","h","i","s","k","e","y">>,
               <<"v","o","d","k","a">> })
        THEN "Drink"
        ELSE "Other"
        : n \in {Lower(name)} } : TRUE

\* RecipeLoader._assign_meal_type on the row of the title at hand:
\* categorize(str(x)), where str(None) is "None".
AssignMealType ==
    /\ meal_threshold > 0
    /\ meal_type' = [ fn |-> "_assign_meal_type",
                      title |-> meal_type.title,
                      to_encode |-> <<>>,
                      vector |-> <<>>,
                      result |-> Categorize(IF meal_type.title.type = "str"
                                            THEN meal_type.title.value
                                            ELSE <<"N","o","n","e">>) ]
    /\ UNCHANGED <<clsVars, normVars, loader, connection, parsed, meal_embeddings, meal_threshold,
                   ingredients, has_price, loaded, extracted, price_loader>>

-----------------------------------------------------------------------------
(* src/graph_db/loaders/price.py: PriceLoader.                             *)

\* \w
WordChars == Letters \cup Digits \cup {"_"}

\* \b at position i of s: a word character on exactly one side.
IsBoundary(s, i) ==
    (i >= 1 /\ s[i] \in WordChars) # (i < Len(s) /\ s[i + 1] \in WordChars)

\* w occurs in s right after position i.
StartsWithAt(s, i, w) ==
    i + Len(w) <= Len(s) /\ SubSeq(s, i + 1, i + Len(w)) = w

\* [\d\s/.,()\-]
QuantityChars == Digits \cup Whitespace \cup {"/", ".", ",", "(", ")", "-"}

\* The branches of (?:cups?|tablespoons?|...|inch|inches), a trailing s?
\* written out as the word with and without it.
units ==
    { <<"c","u","p","s">>,
      <<"c","u","p">>,
      <<"t","a","b","l","e","s","p","o","o","n","s">>,
      <<"t","a","b","l","e","s","p","o","o","n">>,
      <<"t","b","s","p">>,
      <<"t","e","a","s","p","o","o","n","s">>,
      <<"t","e","a","s","p","o","o","n">>,
      <<"t","s","p">>,
      <<"p","o","u","n","d","s">>,
      <<"p","o","u","n","d">>,
      <<"l","b","s">>,
      <<"l","b">>,
      <<"o","u","n","c","e","s">>,
      <<"o","u","n","c","e">>,
      <<"o","z">>,
      <<"g","r","a","m","s">>,
      <<"g","r","a","m">>,
      <<"g">>,
      <<"m","l">>,
      <<"l","i","t","e","r","s">>,
      <<"l","i","t","e","r">>,
      <<"l">>,
      <<"i","n","c","h">>,
      <<"i","n","c","h","e","s">> }

\* The positions where (?:...)?\b can end after position e: after a unit
\* that is followed by a boundary (two units cannot both be, one would
\* continue the other), or else e itself when it is a boundary.
UnitEnds(s, e) ==
    CHOOSE r \in
      { IF us # {} THEN us ELSE IF IsBoundary(s, e) THEN {e} ELSE {}
        : us \in { { e + Len(u) : u \in { w \in units :
                        StartsWithAt(s, e, w) /\ IsBoundary(s, e + Len(w)) } } } }
      : TRUE

\* quantity_unit_pattern.sub("", s): the pattern is anchored at the start;
\* the longest run of quantity characters that the rest can follow wins.
QuantityUnitSub(s) ==
    CHOOSE r \in
      { IF es = {} THEN s
        ELSE CHOOSE t \in
               { SubSeq(s, end + 1, Len(s)) :
                 end \in UnitEnds(s, CHOOSE e \in es : \A o \in es : o <= e) } : TRUE
        : es \in { { e \in 1..RunEnd(s, 0, QuantityChars) : UnitEnds(s, e) # {} } } }
      : TRUE

\* The branches of descriptor_pattern, in the order they are tried.
descriptors ==
    << <<"c","h","o","p","p","e","d">>,
      <<"m","i","n","c","e","d">>,
      <<"s","l","i","c","e","d">>,
      <<"d","i","c","e","d">>,
      <<"c","r","u","s","h","e","d">>,
      <<"h","u","l","l","e","d">>,
      <<"p","e","e","l","e","d">>,
      <<"g","r","o","u","n","d">>,
      <<"s","h","r","e","d","d","e","d">>,
      <<"m","a","s","h","e","d">>,
      <<"f","r","e","s","h">>,
      <<"f","r","o","z","e","n">>,
      <<"c","o","o","k","e","d">>,
      <<"r","a","w">>,
      <<"b","o","i","l","e","d">>,
      <<"g","r","a","t","e","d">>,
      <<"c","o","a","r","s","e","l","y">>,
      <<"f","i","n","e","l","y">>,
      <<"o","p","t","i","o","n","a","l">>,
      <<"p","a","c","k","e","d">>,
      <<"s","t","e","m","m","e","d">>,
      <<"t","r","i","m","m","e","d">>,
      <<"b","e","a","t","e","n">>,
      <<"h","a","l","v","e","d">>,
      <<"p","i","t","t","e","d">>,
      <<"c","u","t">>,
      <<"i","n","t","o">>,
      <<"r","e","m","o","v","e","d">>,
      <<"l","o","o","s","e","l","y">>,
      <<"t","o","r","n">>,
      <<"q","u","a","r","t","e","r","e","d">>,
      <<"r","i","b","s">>,
      <<"l","e","a","v","e","s">>,
      <<"s","t","e","m","s">>,
      <<"w","e","d","g","e","s">>,
      <<"s","l","i","c","e","s">>,
      <<"s","t","r","i","p","s">>,
      <<"w","h","o","l","e">>,
      <<"l","a","r","g","e">>,
      <<"s","m","a","l","l">>,
      <<"m","e","d","i","u","m">>,
      <<"d","r","y">>,
      <<"d","r","i","e","d">>,
      <<"s","w","e","e","t","e","n","e","d">>,
      <<"u","n","s","a","l","t","e","d">>,
      <<"l","o","w","-","s","a","l","t">>,
      <<"n","o","-","s","a","l","t","-","a","d","d","e","d">>,
      <<"s","t","o","r","e","-","b","o","u","g","h","t">>,
      <<"p","r","e","f","e","r","a","b","l","y">>,
      <<"c","o","a","r","s","e","l","y"," ","c","h","o","p","p","e","d">> >>

\* The branches of descriptor_pattern that match after position i.
DescriptorsAt(s, i) ==
    IF IsBoundary(s, i)
    THEN { k \in 1..Len(descriptors) :
              /\ StartsWithAt(s, i, descriptors[k])
              /\ IsBoundary(s, i + Len(descriptors[k])) }
    ELSE {}

\* descriptor_pattern.sub("", s) from position i on.
RECURSIVE DescriptorSub(_, _)
DescriptorSub(s, i) ==
    IF i >= Len(s) THEN <<>>
    ELSE CHOOSE r \in
           { IF ks # {}
             THEN DescriptorSub(s, i + Len(descriptors[CHOOSE k \in ks :
                                                          \A o \in ks : k <= o]))
             ELSE <<s[i + 1]>> \o DescriptorSub(s, i + 1)
             : ks \in {DescriptorsAt(s, i)} } : TRUE

\* Where number_pattern, \b\d+([\/.-]\d+)?\b|\b\d+\w*\b, ends when it
\* matches after position i, and i when it does not.  r1 ends the digits:
\* the first branch ends after a second number when one follows with a
\* boundary, or at r1 when that is a boundary; the second branch takes the
\* whole word.
NumberEnd(s, i) ==
    IF IsBoundary(s, i) /\ i < Len(s) /\ s[i + 1] \in Digits
    THEN CHOOSE r \in
           { IF /\ r1 < Len(s)
                /\ s[r1 + 1] \in {"/", ".", "-"}
                /\ RunEnd(s, r1 + 1, Digits) > r1 + 1
                /\ IsBoundary(s, RunEnd(s, r1 + 1, Digits))
             THEN RunEnd(s, r1 + 1, Digits)
             ELSE IF IsBoundary(s, r1) THEN r1
             ELSE RunEnd(s, i, WordChars)
             : r1 \in {RunEnd(s, i, Digits)} } : TRUE
    ELSE i

\* number_pattern.sub("", s) from position i on.
RECURSIVE NumberSub(_, _)
NumberSub(s, i) ==
    IF i >= Len(s) THEN <<>>
    ELSE CHOOSE r \in
           { IF end > i
             THEN NumberSub(s, end)
             ELSE <<s[i + 1]>> \o NumberSub(s, i + 1)
             : end \in {NumberEnd(s, i)} } : TRUE

\* punct_pattern.sub("", s): [^\w\s] is dropped.
PunctSub(s) == SelectSeq(s, LAMBDA c : c \in WordChars \cup Whitespace)

\* space_pattern.sub(" ", s) from position i on: a run of whitespace
\* becomes one space.
RECURSIVE SpaceSub(_, _)
SpaceSub(s, i) ==
    IF i >= Len(s) THEN <<>>
    ELSE IF s[i + 1] \in Whitespace
         THEN <<" ">> \o SpaceSub(s, RunEnd(s, i, Whitespace))
         ELSE <<s[i + 1]>> \o SpaceSub(s, i + 1)

\* str.split() from position i on: the maximal runs of non-whitespace.
RECURSIVE Words(_, _)
Words(s, i) ==
    IF i >= Len(s) THEN <<>>
    ELSE IF s[i + 1] \in Whitespace
         THEN Words(s, RunEnd(s, i, Whitespace))
         ELSE CHOOSE r \in
                { <<SubSeq(s, i + 1, j)>> \o Words(s, j)
                  : j \in { k \in (i + 1)..Len(s) :
                               /\ \A m \in (i + 1)..k : s[m] \notin Whitespace
                               /\ (k = Len(s) \/ s[k + 1] \in Whitespace) } } : TRUE

\* `" ".join(tokens[-2:]) if len(tokens) >= 2 else (tokens[-1] if tokens else None)`
LastTwo(tokens) ==
    IF Len(tokens) >= 2
    THEN Str(tokens[Len(tokens) - 1] \o <<" ">> \o tokens[Len(tokens)])
    ELSE IF Len(tokens) = 1 THEN Str(tokens[1]) ELSE None

\* extract_core_ingredient(text): None or a str.
ExtractCoreIngredient(text) ==
    CHOOSE r \in
      { LastTwo(Words(t5, 0)) :
        t5 \in { Strip(SpaceSub(t4, 0)) :
        t4 \in { PunctSub(t3) :
        t3 \in { NumberSub(t2, 0) :
        t2 \in { DescriptorSub(t1, 0) :
        t1 \in { QuantityUnitSub(t0) :
        t0 \in { Strip(Lower(text)) } } } } } } } : TRUE

\* "sun-dried tomatoes" and "Organic Sun-Dried Tomatoes, 8oz jar"
sun_dried_tomatoes == <<"s","u","n","-","d","r","i","e","d"," ","t","o","m","a","t","o","e","s">>
organic_jar == <<"O","r","g","a","n","i","c"," ","S","u","n","-","D","r","i","e","d"," ","T","o","m","a","t","o","e","s",","," ","8","o","z"," ","j","a","r">>

\* The names of the Ingredient nodes a graph can have: "sun-dried
\* tomatoes", "tomatoes" and "1/2 cup chopped onions".
IngredientNames ==
    { sun_dried_tomatoes,
      <<"t","o","m","a","t","o","e","s">>,
      <<"1","/","2"," ","c","u","p"," ","c","h","o","p","p","e","d"," ","o","n","i","o","n","s">> }

\* The rows of a price table: product_name and price_current (in cents).
\* The other products are "Sun-Dried Tomatoes", "Fresh Tomatoes",
\* "tomatoes 8oz jar" and "Red Onions".
Rows ==
    { [ product_name |-> organic_jar, price_current |-> 499 ],
      [ product_name |-> <<"S","u","n","-","D","r","i","e","d"," ","T","o","m","a","t","o","e","s">>,
        price_current |-> 399 ],
      [ product_name |-> <<"F","r","e","s","h"," ","T","o","m","a","t","o","e","s">>,
        price_current |-> 199 ],
      [ product_name |-> <<"t","o","m","a","t","o","e","s"," ","8","o","z"," ","j","a","r">>,
        price_current |-> 249 ],
      [ product_name |-> <<"R","e","d"," ","O","n","i","o","n","s">>,
        price_current |-> 129 ] }

\* The texts handed to extract_core_ingredient: the names above, "",
\* "2 cups", "low-salt butter" and "1-2 eggs".
CoreInputs ==
    IngredientNames \cup { row.product_name : row \in Rows }
      \cup { <<>>,
             <<"2"," ","c","u","p","s">>,
             <<"l","o","w","-","s","a","l","t"," ","b","u","t","t","e","r">>,
             <<"1","-","2"," ","e","g","g","s">> }

\* The tables of at most MaxRows rows.
Tables == UNION { [1..n -> Rows] : n \in 0..MaxRows }

\* A caller of extract_core_ingredient keeps what it returns.
ExtractCoreIngredientCall ==
    /\ Len(extracted) < MaxExtracts
    /\ \E text \in CoreInputs :
          extracted' = Append(extracted, [ arg |-> text,
                                           result |-> ExtractCoreIngredient(text) ])
    /\ UNCHANGED <<clsVars, normVars, loader, connection, parsed, meal_embeddings, meal_threshold,
                   meal_type, ingredients, has_price, loaded, price_loader>>

\* The dicts processed_to_original that the loop over the ingredient names
\* can build, given their core terms: a name without core term is left out,
\* and of several names with one core term the last one read stays, in
\* whatever order the database returned them.
ProcessedToOriginal(cores) ==
    { f \in [ { cores[n].value : n \in { m \in DOMAIN cores : cores[m] # None } }
                -> DOMAIN cores ] :
        \A c \in DOMAIN f : cores[f[c]] = Str(c) }

\* str.extract(r"\b(k1|k2|...)\b") on a product name: the keys that match at
\* the leftmost position where one does, the branches being tried in the
\* iteration order of a set; <<>> (NaN) when none matches.
Extract(name, keys) ==
    CHOOSE r \in
      { IF ps = {} THEN { <<>> }
        ELSE { k \in keys :
                 \E p \in ps :
                    /\ \A o \in ps : p <= o
                    /\ IsBoundary(name, p)
                    /\ StartsWithAt(name, p, k)
                    /\ IsBoundary(name, p + Len(k)) }
        : ps \in { { p \in 0..Len(name) :
                       \E k \in keys :
                          /\ IsBoundary(name, p)
                          /\ StartsWithAt(name, p, k)
                          /\ IsBoundary(name, p + Len(k)) } } } : TRUE

\* A variant of steps 4 to 6 that does not drop the rows without a match.
BatchKeepsUnmatched(product_names, df, matched, processed_to_original) ==
    [ i \in 1..Len(df) |->
        [ original_ingredient |-> IF matched[i] = <<>> THEN <<>>
                                  ELSE processed_to_original[matched[i]],
          product_name |-> product_names[i],
          price_current |-> df[i].price_current ] ]

\* Steps 4 to 6 of load_data: map the matches to node product_names, drop the rows
\* without one, keep the first row per node name, and make the batch.
Batch(product_names, df, matched, processed_to_original) ==
    CHOOSE r \in
      { [ i \in 1..Len(kept) |->
            [ original_ingredient |-> kept[i].original,
              product_name |-> kept[i].name,
              price_current |-> kept[i].price ] ]
        : kept \in
          { SelectSeq(
              [ i \in 1..Len(df) |->
                  [ name |-> product_names[i],
                    price |-> df[i].price_current,
                    original |-> IF matched[i] = <<>> THEN <<>>
                                 ELSE processed_to_original[matched[i]],
                    first |-> \A j \in 1..(i - 1) :
                                 \/ matched[j] = <<>>
                                 \/ matched[i] = <<>>
                                 \/ processed_to_original[matched[j]]
                                      # processed_to_original[matched[i]] ] ],
              LAMBDA row : row.original # <<>> /\ row.first) } } : TRUE

\* The UNWIND statement: per row, the Price node of the ingredient is
\* merged and its price and source are set.
Merge(rel, batch) ==
    [ i \in DOMAIN rel \cup { batch[k].original_ingredient : k \in 1..Len(batch) } |->
        IF \E k \in 1..Len(batch) : batch[k].original_ingredient = i
        THEN CHOOSE p \in { [ price |-> batch[k].price_current,
                              source |-> batch[k].product_name ] :
                            k \in { m \in 1..Len(batch) :
                                       batch[m].original_ingredient = i } } : TRUE
        ELSE rel[i] ]

\* A load_data call of the PriceLoader that has ended, as `loaded` keeps it:
\* `ended` is the line of its return or of the statement that raised, `df`
\* the rows of the table (kept from line 48 on), `names` the names read from
\* the graph, `writes` the number of UNWIND statements that ran.  A dict
\* returned is the dict; an exception is [raised |-> its class].
Ended(line, df, read, batch, writes, result) ==
    [ ended |-> line, df |-> df, names |-> read, batch |-> batch,
      writes |-> writes, result |-> result ]

\* PriceLoader.load_data(df), lines 40 to 48.  `if not self.driver` returns
\* the error dict.  df.columns.str.lower() raises AttributeError for column
\* labels that are not strings ("integers"), and a table without one of the
\* two columns ("missing") gets the error dict of line 46.  Otherwise the
\* call goes on to line 51; price_loader.call is the call in progress.
LoadData ==
    /\ price_loader.kind = "price"
    /\ price_loader.call = <<>>
    /\ Len(loaded) < MaxLoads
    /\ IF ~price_loader.driver
       THEN /\ loaded' = Append(loaded,
                  Ended(41, <<>>, {}, <<>>, 0,
                        [ status |-> "error", error |-> "Neo4j driver not set." ]))
            /\ UNCHANGED price_loader
       ELSE \E columns \in { "expected", "missing", "integers" } :
            IF columns = "integers"
            THEN /\ loaded' = Append(loaded,
                       Ended(44, <<>>, {}, <<>>, 0, [ raised |-> "AttributeError" ]))
                 /\ UNCHANGED price_loader
            ELSE IF columns = "missing"
            THEN /\ loaded' = Append(loaded,
                       Ended(46, <<>>, {}, <<>>, 0,
                             [ status |-> "error",
                               error |-> "Missing required 'product_name' or 'price_current' column." ]))
                 /\ UNCHANGED price_loader
            ELSE /\ \E df \in Tables :
                       price_loader' = [ price_loader EXCEPT
                          !.call = << [ at |-> "session", df |-> df, names |-> {},
                                        batch |-> <<>> ] >> ]
                 /\ UNCHANGED loaded
    /\ UNCHANGED <<clsVars, normVars, loader, connection, parsed, meal_embeddings, meal_threshold,
                   meal_type, ingredients, has_price, extracted>>

\* Line 51 and the call of line 52: self.driver.session() on what
\* self.driver is now, which raises AttributeError when set_driver has made
\* it None since line 40; then the MATCH statement is sent and the call
\* waits for the server.
LoadDataSession ==
    /\ price_loader.call # <<>>
    /\ price_loader.call[1].at = "session"
    /\ IF ~price_loader.driver
       THEN /\ loaded' = Append(loaded,
                  Ended(51, price_loader.call[1].df, {}, <<>>, 0,
                        [ raised |-> "AttributeError" ]))
            /\ price_loader' = [ price_loader EXCEPT !.call = <<>> ]
       ELSE /\ price_loader' = [ price_loader EXCEPT
                  !.call = << [ @[1] EXCEPT !.at = "reading" ] >> ]
            /\ UNCHANGED loaded
    /\ UNCHANGED <<clsVars, normVars, loader, connection, parsed, meal_embeddings, meal_threshold,
                   meal_type, ingredients, has_price, extracted>>

\* The end of the wait of line 52 and lines 53 to 80.  session.run either
\* raises, which load_data does not catch, or gives the names of the
\* Ingredient nodes the graph has now, from which the batch is computed.
\* `if df.empty:` returns before the second session is opened; otherwise
\* the call goes on to line 83 with the names it read and its batch.
LoadDataRead ==
    /\ price_loader.call # <<>>
    /\ price_loader.call[1].at = "reading"
    /\ \E ok \in BOOLEAN :
       \E df \in { price_loader.call[1].df } :
          IF ~ok
          THEN /\ loaded' = Append(loaded,
                     Ended(52, df, {}, <<>>, 0, [ raised |-> "Exception" ]))
               /\ price_loader' = [ price_loader EXCEPT !.call = <<>> ]
          ELSE
       \E product_names \in { [ i \in 1..Len(df) |-> Strip(Lower(df[i].product_name)) ] } :
       \E cores \in { [ n \in ingredients |-> ExtractCoreIngredient(n) ] } :
       \E processed_to_original \in ProcessedToOriginal(cores) :
       \E matched \in [ 1..Len(df) -> DOMAIN processed_to_original \cup { <<>> } ] :
          /\ \A i \in 1..Len(df) :
                matched[i] \in Extract(product_names[i], DOMAIN processed_to_original)
          /\ \E batch \in { Batch(product_names, df, matched, processed_to_original) } :
                IF batch = <<>>
                THEN /\ loaded' = Append(loaded,
                           Ended(78, df, ingredients, batch, 0,
                                 [ status |-> "success", loaded |-> 0,
                                   filtered_out |-> 0 ]))
                     /\ price_loader' = [ price_loader EXCEPT !.call = <<>> ]
                ELSE /\ price_loader' = [ price_loader EXCEPT
                           !.call = << [ at |-> "write", df |-> df,
                                         names |-> ingredients, batch |-> batch ] >> ]
                     /\ UNCHANGED loaded
    /\ UNCHANGED <<clsVars, normVars, loader, connection, parsed, meal_embeddings, meal_threshold,
                   meal_type, ingredients, has_price, extracted>>

\* Line 83 and the call of line 84: self.driver.session() on what
\* self.driver is now, which raises AttributeError when set_driver has made
\* it None by now; then the UNWIND statement is sent and the call waits for
\* the server.
LoadDataWriteSession ==
    /\ price_loader.call # <<>>
    /\ price_loader.call[1].at = "write"
    /\ \E call \in { price_loader.call[1] } :
          IF ~price_loader.driver
          THEN /\ loaded' = Append(loaded,
                     Ended(83, call.df, call.names, call.batch, 0,
                           [ raised |-> "AttributeError" ]))
               /\ price_loader' = [ price_loader EXCEPT !.call = <<>> ]
          ELSE /\ price_loader' = [ price_loader EXCEPT
                     !.call = << [ @[1] EXCEPT !.at = "writing" ] >> ]
               /\ UNCHANGED loaded
    /\ UNCHANGED <<clsVars, normVars, loader, connection, parsed, meal_embeddings, meal_threshold,
                   meal_type, ingredients, has_price, extracted>>

\* The end of the wait of line 84 and lines 95 to 99.  The UNWIND statement
\* either raises, and nothing is written, or runs on the graph as it is
\* then: a row whose Ingredient node the MATCH does not find writes
\* nothing.  The dict is returned after it.
LoadDataWrite ==
    /\ price_loader.call # <<>>
    /\ price_loader.call[1].at = "writing"
    /\ \E call \in { price_loader.call[1] } :
       \E ok \in BOOLEAN :
          IF ~ok
          THEN /\ loaded' = Append(loaded,
                     Ended(84, call.df, call.names, call.batch, 0,
                           [ raised |-> "Exception" ]))
               /\ UNCHANGED has_price
          ELSE /\ has_price' = Merge(has_price,
                     SelectSeq(call.batch,
                               LAMBDA row : row.original_ingredient \in ingredients))
               /\ loaded' = Append(loaded,
                     Ended(99, call.df, call.names, call.batch, 1,
                           [ status |-> "success",
                             loaded |-> Len(call.batch),
                             filtered_out |-> 0 ]))
    /\ price_loader' = [ price_loader EXCEPT !.call = <<>> ]
    /\ UNCHANGED <<clsVars, normVars, loader, connection, parsed, meal_embeddings, meal_threshold,
                   meal_type, ingredients, extracted>>

\* DataLoader.set_driver(driver) on the PriceLoader; the argument is a
\* driver or None (TRUE and FALSE), as Neo4jConnection.get_driver returns.
PriceSetDriver ==
    /\ price_loader.kind = "price"
    /\ \E driver \in BOOLEAN : price_loader' = [ price_loader EXCEPT !.driver = driver ]
    /\ UNCHANGED <<clsVars, normVars, loader, connection, parsed, meal_embeddings, meal_threshold,
                   meal_type, ingredients, has_price, loaded, extracted>>

-----------------------------------------------------------------------------
(* src/graph_db/loaders: RecipeLoader, FoodItemLoader and PersonLoader.    *)
(*                                                                         *)
(* A DataFrame is modelled by its row labels, in row order, and by whether *)
(* its columns carry the names the loader reads ("expected") or are the    *)
(* integer labels of a frame built without names ("integers").  A Python   *)
(* dict is a function from its keys.  An entry of the errors list keeps    *)
(* the text before the number and the number:                              *)
(* f"Error in batch {batch_idx}: {str(e)}" is                              *)
(* [text |-> "Error in batch", index |-> batch_idx].                       *)

\* The arguments of load_data: a frame of n rows labelled 0..n-1, batch_size
\* and sample_size (0 stands for sample_size=None, which `if sample_size and
\* ...` treats as it treats 0).
LoadArguments ==
    { a \in [ data : { [ index |-> [ i \in 1..n |-> i - 1 ], columns |-> columns ] :
                         n \in (0..3) \cup { MaxRecords, 51, 101 },
                         columns \in { "expected", "integers" } },
              batch_size : { 1, 25 },
              sample_size : { 0, 2 } ] :
        \/ Len(a.data.index) <= 3
        \/ a.sample_size = 0 /\ a.batch_size = 1 /\ Len(a.data.index) = MaxRecords
        \/ a.sample_size = 0 /\ a.batch_size = 25 /\ Len(a.data.index) > MaxRecords }

\* `if sample_size and len(data) > sample_size: data = data.sample(sample_size,
\* random_state=42)`: the frames the statement can leave in `data`; which
\* rows the seeded generator picks, and in which order, is not decided here.
Samples(data, sample_size) ==
    IF sample_size # 0 /\ Len(data.index) > sample_size
    THEN { [ data EXCEPT !.index = [ i \in 1..sample_size |-> data.index[pick[i]] ] ] :
             pick \in { f \in [ 1..sample_size -> 1..Len(data.index) ] :
                          \A i, j \in 1..sample_size : i # j => f[i] # f[j] } }
    ELSE { data }

\* DataLoader.batch_data:
\* `[data[i : i + batch_size] for i in range(0, len(data), batch_size)]`
BatchData(index, batch_size) ==
    [ b \in 1..((Len(index) + batch_size - 1) \div batch_size) |->
        SubSeq(index, (b - 1) * batch_size + 1,
               IF b * batch_size < Len(index) THEN b * batch_size ELSE Len(index)) ]

\* A variant of the loop body that counts the records before the write.
ProcessBatchCountsFirst(st, kind, columns, batch, batch_idx, ok) ==
    IF kind = "food_items" /\ columns # "expected"
    THEN [ st EXCEPT !.errors = @ \o [ i \in 1..Len(batch) |->
               [ text |-> "Error processing food item", index |-> batch[i] ] ] ]
    ELSE [ st EXCEPT
             !.total_processed = @ + Len(batch),
             !.errors = IF ok THEN @
                        ELSE Append(@, [ text |-> "Error in batch",
                                         index |-> batch_idx ]),
             !.runs = Append(@, [ batch_idx |-> batch_idx,
                                  records |-> batch, ok |-> ok ]) ]

\* A variant of the loop body whose `except` does not append to errors.
ProcessBatchUnrecorded(st, kind, columns, batch, batch_idx, ok) ==
    IF kind = "food_items" /\ columns # "expected"
    THEN [ st EXCEPT !.errors = @ \o [ i \in 1..Len(batch) |->
               [ text |-> "Error processing food item", index |-> batch[i] ] ] ]
    ELSE [ st EXCEPT
             !.total_processed = IF ok THEN @ + Len(batch) ELSE @,
             !.runs = Append(@, [ batch_idx |-> batch_idx,
                                  records |-> batch, ok |-> ok ]) ]

\* The body of `for batch_idx, batch in enumerate(batches)`, on the locals
\* st.  The inner loop builds one record per row: in FoodItemLoader
\* row["Food"] raises KeyError for every row of a frame without that column,
\* and each row is appended to errors; PersonLoader reads with row.get, and
\* RecipeLoader reads columns that the preparation steps have set, so every
\* row gives a record.  `if records:` session.run is called with them (a
\* batch is never empty), and `ok` says whether it returned or raised: when
\* it returns, total_processed grows by len(records); when it raises, the
\* `except Exception` appends the batch error and the loop goes on.  `runs`
\* lists the session.run calls.
ProcessBatch(st, kind, columns, batch, batch_idx, ok) ==
    IF kind = "food_items" /\ columns # "expected"
    THEN [ st EXCEPT !.errors = @ \o [ i \in 1..Len(batch) |->
               [ text |-> "Error processing food item", index |-> batch[i] ] ] ]
    ELSE [ st EXCEPT
             !.total_processed = IF ok THEN @ + Len(batch) ELSE @,
             !.errors = IF ok THEN @
                        ELSE Append(@, [ text |-> "Error in batch",
                                         index |-> batch_idx ]),
             !.runs = Append(@, [ batch_idx |-> batch_idx,
                                  records |-> batch, ok |-> ok ]) ]

\* A variant of the returned dict that reports a run with processed records
\* as a success.
SummarySuccessWhenProcessed(st, total_records) ==
    [ status |-> IF st.errors = <<>> \/ st.total_processed > 0
                 THEN "success" ELSE "error",
      total_processed |-> st.total_processed,
      total_records |-> total_records,
      errors |-> SubSeq(st.errors, 1, IF Len(st.errors) > 10 THEN 10
                                      ELSE Len(st.errors)) ]

\* The dict load_data returns after its loop.  status is `"success" if not
\* errors else "partial_success" if total_processed > 0 else "error"`;
\* errors[:10] is what both `errors[:10] if len(errors) > 10 else errors`
\* and `errors[:10] if errors else []` evaluate to.
Summary(st, total_records) ==
    [ status |-> IF st.errors = <<>> THEN "success"
                 ELSE IF st.total_processed > 0 THEN "partial_success"
                 ELSE "error",
      total_processed |-> st.total_processed,
      total_records |-> total_records,
      errors |-> SubSeq(st.errors, 1, IF Len(st.errors) > 10 THEN 10
                                      ELSE Len(st.errors)) ]

\* The loader after `for batch_idx, batch in enumerate(batches)` has gone
\* through one more batch on the session opened at the start of the loop:
\* the body on the locals, and after the last batch the return of the dict.
\* `ok` says whether the session.run of the batch returned or raised.
AfterBatch(self, ok) ==
    CHOOSE r \in
      { IF st.batch_idx >= Len(self.batches)
        THEN [ self EXCEPT !.locals = st,
                           !.result = << Summary(st, st.total_records) >> ]
        ELSE [ self EXCEPT !.locals = st ]
        : st \in { [ next EXCEPT !.batch_idx = @ + 1 ]
                   : next \in { ProcessBatch(self.locals, self.kind, self.call[1].data.columns,
                                             self.batches[self.locals.batch_idx + 1],
                                             self.locals.batch_idx, ok) } } } : TRUE

\* The loader when load_data has made its batches and opened its session:
\* the call returns at once when there is no batch, and is in progress
\* otherwise (call set, no result yet).  `a` is the arguments, `data` the
\* frame after sampling, `listed` the ingredient lists of its rows.
Started(self, a, data, batch_size, listed) ==
    CHOOSE r \in
      { IF batches = <<>>
        THEN [ self EXCEPT !.call = << a >>,
                           !.batches = batches, !.locals = st,
                           !.result = << Summary(st, st.total_records) >> ]
        ELSE [ self EXCEPT !.call = << a >>,
                           !.batches = batches, !.locals = st ]
        : st \in { [ self.locals EXCEPT !.total_records = Len(data.index),
                                        !.ingredients = listed ] },
          batches \in { BatchData(data.index, batch_size) } } : TRUE

\* The dict every load_data returns when self.driver is not set.
DriverNotSet(self, a) ==
    [ self EXCEPT
        !.call = << a >>,
        !.result = << [ status |-> "error",
                        error |-> "Neo4j driver not set. Call set_driver() first." ] >> ]

\* PersonLoader.load_data(data, sample_size, batch_size) up to the start of
\* its loop: the driver test, the sampling, the batches and the session.
\* `loader` keeps the arguments, the batches and the locals of the call, and
\* the dict once it is returned.
PersonLoadData ==
    /\ loader.kind = "persons"
    /\ loader.call = <<>>
    /\ \E a \in LoadArguments :
          IF ~loader.driver
          THEN loader' = DriverNotSet(loader, a)
          ELSE \E data \in Samples(a.data, a.sample_size) :
                  loader' = Started(loader, a, data, a.batch_size, {})
    /\ UNCHANGED <<clsVars, normVars, textVars, connection>>

\* One turn of the loop of PersonLoader.load_data: the session.run of the
\* next batch on the session opened before the loop, whatever self.driver
\* is by now.
PersonLoadBatch ==
    /\ loader.kind = "persons"
    /\ loader.call # <<>> /\ loader.result = <<>>
    /\ \E ok \in BOOLEAN : loader' = AfterBatch(loader, ok)
    /\ UNCHANGED <<clsVars, normVars, textVars, connection>>

\* FoodItemLoader.load_data(data) up to the start of its loop: batch_data is
\* called with its default batch_size of 50, and there is no sampling.
FoodItemLoadData ==
    /\ loader.kind = "food_items"
    /\ loader.call = <<>>
    /\ \E a \in { [ b EXCEPT !.batch_size = 50 ] :
                    b \in { c \in LoadArguments : c.batch_size = 25 /\ c.sample_size = 0 } } :
          loader' = IF ~loader.driver
                    THEN DriverNotSet(loader, a)
                    ELSE Started(loader, a, a.data, 50, {})
    /\ UNCHANGED <<clsVars, normVars, textVars, connection>>

\* One turn of the loop of FoodItemLoader.load_data.
FoodItemLoadBatch ==
    /\ loader.kind = "food_items"
    /\ loader.call # <<>> /\ loader.result = <<>>
    /\ \E ok \in BOOLEAN : loader' = AfterBatch(loader, ok)
    /\ UNCHANGED <<clsVars, normVars, textVars, connection>>

\* RecipeLoader.load_data(data, source_name, sample_size, batch_size) up to
\* the start of its loop.  _prepare_basic_info evaluates
\* df.columns.str.strip(), which raises for column labels that are not
\* strings; the outer `except Exception` then returns the error dict, with
\* str(e) as its message.  The constraint statements run in a try of their
\* own whose `except` only logs, and the ingredient statistics and the
\* `data` entry of the result are left out.  Every row of a frame lists the
\* same ingredient names: none, "tomatoes" or "1/2 cup chopped onions".
\* Next to a PriceLoader the frames have one row.
RecipeLoadData ==
    /\ loader.kind = "recipes"
    /\ loader.call = <<>>
    /\ \E a \in { b \in LoadArguments :
                    price_loader.kind = "price"
                       => /\ Len(b.data.index) = 1 /\ b.data.columns = "expected"
                          /\ b.batch_size = 25 /\ b.sample_size = 0 } :
          IF ~loader.driver
          THEN loader' = DriverNotSet(loader, a)
          ELSE \E data \in Samples(a.data, a.sample_size) :
               IF data.columns # "expected"
               THEN loader' = [ loader EXCEPT
                      !.call = << a >>,
                      !.result = << [ status |-> "error",
                                      error |-> "Can only use .str accessor with string values",
                                      total_processed |-> 0,
                                      total_records |-> Len(data.index) ] >> ]
               ELSE \E listed \in
                         { {}, { <<"t","o","m","a","t","o","e","s">> },
                           { <<"1","/","2"," ","c","u","p"," ","c","h","o","p","p","e","d",
                               " ","o","n","i","o","n","s">> } } :
                       loader' = Started(loader, a, data, a.batch_size, listed)
    /\ UNCHANGED <<clsVars, normVars, textVars, connection>>

\* One turn of the loop of RecipeLoader.load_data.  A session.run that
\* returns has merged an Ingredient node for every name of its rows
\* (`MERGE (i:Ingredient {name: ingredient})`).
RecipeLoadBatch ==
    /\ loader.kind = "recipes"
    /\ loader.call # <<>> /\ loader.result = <<>>
    /\ \E ok \in BOOLEAN :
          /\ loader' = AfterBatch(loader, ok)
          /\ ingredients' = IF ok THEN ingredients \cup loader.locals.ingredients
                            ELSE ingredients
    /\ UNCHANGED <<clsVars, normVars, connection, parsed, meal_embeddings, meal_threshold,
                   meal_type, has_price, loaded, extracted, price_loader>>

\* DataLoader.set_driver(driver) on the recipe, food-item or person loader;
\* the argument is a driver or None (TRUE and FALSE), as
\* Neo4jConnection.get_driver returns.
SetDriver ==
    /\ loader.kind # "none"
    /\ \E driver \in BOOLEAN : loader' = [ loader EXCEPT !.driver = driver ]
    /\ UNCHANGED <<clsVars, normVars, textVars, connection>>

-----------------------------------------------------------------------------
(* src/graph_db/neo4j/connection.py: Neo4jConnection.                      *)

\* The `except Exception` of connect(): retry_count += 1, then either `return
\* False` when the attempts are used up, or time.sleep(retry_delay) and the
\* next turn of the while loop.  self.driver and self.connected keep the
\* values they have.
Retry(self) ==
    IF self.connecting[1].retry_count + 1 >= self.connecting[1].max_retries
    THEN [ self EXCEPT
             !.connecting = <<>>,
             !.calls = Append(@, [ op |-> "connect", returned |-> FALSE ]) ]
    ELSE [ self EXCEPT
             !.connecting = << [ @[1] EXCEPT !.retry_count = @ + 1,
                                             !.at = "driver" ] >> ]

\* Neo4jConnection.connect(max_retries) is called: retry_count = 0 and the
\* first test of `while retry_count < max_retries`, which returns False at
\* once when max_retries is 0.  `connecting` is the call in progress: its
\* retry_count, its max_retries and the statement it is at.  Other calls on
\* the connection can be made while it is in progress.
Connect ==
    /\ connection.driver \in { "None", "Driver" }
    /\ connection.connecting = <<>>
    /\ Len(connection.calls) + (IF connection.closing THEN 1 ELSE 0) < MaxOps
    /\ \E max_retries \in { 0, 1, 3 } :
          connection' =
             IF max_retries = 0
             THEN [ connection EXCEPT
                      !.calls = Append(@, [ op |-> "connect", returned |-> FALSE ]) ]
             ELSE [ connection EXCEPT
                      !.connecting = << [ retry_count |-> 0,
                                          max_retries |-> max_retries,
                                          at |-> "driver" ] >> ]
    /\ UNCHANGED <<clsVars, normVars, textVars, loader>>

\* Line 185 of connect(), after the sleep of the attempt before:
\* `self.driver = GraphDatabase.driver(...)` either raises, and self.driver
\* keeps its value, or assigns the new driver.
ConnectDriver ==
    /\ connection.connecting # <<>>
    /\ connection.connecting[1].at = "driver"
    /\ \E raised \in BOOLEAN :
          connection' =
             IF raised THEN Retry(connection)
             ELSE [ connection EXCEPT !.driver = "Driver",
                                      !.connecting = << [ @[1] EXCEPT !.at = "verify" ] >> ]
    /\ UNCHANGED <<clsVars, normVars, textVars, loader>>

\* Line 189 of connect() up to the wait: `self.driver.verify_connectivity`
\* is evaluated on what self.driver is now.  When close() has set it to None
\* since line 185, the attribute access raises AttributeError, which the
\* `except Exception` catches; otherwise the call waits for the server.
ConnectVerifyCall ==
    /\ connection.connecting # <<>>
    /\ connection.connecting[1].at = "verify"
    /\ connection' =
          IF connection.driver = "None" THEN Retry(connection)
          ELSE [ connection EXCEPT !.connecting = << [ @[1] EXCEPT !.at = "verifying" ] >> ]
    /\ UNCHANGED <<clsVars, normVars, textVars, loader>>

\* The end of the wait of line 189 and lines 190 to 192:
\* verify_connectivity() either raises or returns, and then
\* self.connected = True and connect() returns True, whatever self.driver
\* is by now.
ConnectVerify ==
    /\ connection.connecting # <<>>
    /\ connection.connecting[1].at = "verifying"
    /\ \E raised \in BOOLEAN :
          connection' =
             IF raised THEN Retry(connection)
             ELSE [ connection EXCEPT
                      !.connected = TRUE,
                      !.connecting = <<>>,
                      !.calls = Append(@, [ op |-> "connect", returned |-> TRUE ]) ]
    /\ UNCHANGED <<clsVars, normVars, textVars, loader>>

\* Neo4jConnection.close() up to its wait: `if self.driver:` is false and
\* the call returns at once, or self.driver.close() is called and the call
\* waits for it; `closing` says that a close() is at that wait.  The calls
\* in progress count among the calls that are kept.
Close ==
    /\ connection.driver \in { "None", "Driver" }
    /\ ~connection.closing
    /\ Len(connection.calls) + Len(connection.connecting) < MaxOps
    /\ connection' =
          IF connection.driver # "None"
          THEN [ connection EXCEPT !.closing = TRUE ]
          ELSE [ connection EXCEPT
                   !.calls = Append(@, [ op |-> "close", returned |-> "None" ]) ]
    /\ UNCHANGED <<clsVars, normVars, textVars, loader>>

\* Lines 209 to 211 of close(), after self.driver.close() has returned:
\* self.driver = None and self.connected = False, whatever connect() has
\* assigned in between.
CloseReturn ==
    /\ connection.closing
    /\ connection' = [ connection EXCEPT
          !.driver = "None", !.connected = FALSE, !.closing = FALSE,
          !.calls = Append(@, [ op |-> "close", returned |-> "None" ]) ]
    /\ UNCHANGED <<clsVars, normVars, textVars, loader>>

\* Neo4jConnection.get_driver()
GetDriver ==
    /\ connection.driver \in { "None", "Driver" }
    /\ Len(connection.calls) + Len(connection.connecting)
          + (IF connection.closing THEN 1 ELSE 0) < MaxOps
    /\ connection' = [ connection EXCEPT
          !.calls = Append(@, [ op |-> "get_driver", returned |-> connection.driver ]) ]
    /\ UNCHANGED <<clsVars, normVars, textVars, loader>>

-----------------------------------------------------------------------------
(* Specifications.                                                         *)

ClsInit ==
    /\ classifier = "None"
    /\ returned = <<>>

\* IngredientNormalizer.__init__(threshold), on a given embedding model.
NormInit ==
    /\ encode \in [Keys -> Vectors]
    /\ threshold \in Thresholds
    /\ canonical = <<>>
    /\ embeddings = <<>>
    /\ names = <<>>
    /\ to_embed = {}
    /\ history = <<>>

\* No normalizer has been constructed.
NormNone ==
    /\ impl = "none"
    /\ encode = <<>>
    /\ threshold = 0
    /\ canonical = <<>>
    /\ embeddings = <<>>
    /\ names = <<>>
    /\ to_embed = {}
    /\ history = <<>>

\* A string is at hand for the parser; no call has been made.
ParseInit ==
    \E text \in ParserInputs :
       parsed = [ fn |-> "none", module |-> "none", arg |-> text, result |-> <<>> ]

\* The parser is not in use.
ParseNone ==
    parsed = [ fn |-> "none", module |-> "none", arg |-> None, result |-> <<>> ]

\* MealTypeEmbedder(threshold): the labels are encoded once.  A recipe
\* title is at hand.
MealInit ==
    /\ meal_embeddings \in [1..Len(meal_types) -> LabelVectors]
    /\ meal_threshold \in MealThresholds
    /\ \E title \in Titles :
          meal_type = [ fn |-> "none", title |-> title, to_encode |-> <<>>,
                        vector |-> <<>>, result |-> "" ]

\* No MealTypeEmbedder has been constructed.
MealNone ==
    /\ meal_embeddings = <<>>
    /\ meal_threshold = 0
    /\ meal_type = [ fn |-> "none", title |-> None, to_encode |-> <<>>,
                     vector |-> <<>>, result |-> "" ]

\* A graph with some Ingredient nodes and no prices yet, and a PriceLoader
\* constructed with or without a driver.
PriceInit ==
    /\ ingredients \in SUBSET IngredientNames
    /\ has_price = <<>>
    /\ loaded = <<>>
    /\ extracted = <<>>
    /\ price_loader \in [ kind : { "price" }, driver : BOOLEAN, call : { <<>> } ]

\* An empty graph and no PriceLoader.
PriceNone ==
    /\ ingredients = {}
    /\ has_price = <<>>
    /\ loaded = <<>>
    /\ extracted = <<>>
    /\ price_loader = [ kind |-> "none", driver |-> FALSE, call |-> <<>> ]

\* Neither a loader nor a connection has been constructed.
GraphDbNone ==
    /\ loader = [ kind |-> "none", driver |-> FALSE, call |-> <<>>, batches |-> <<>>,
                  locals |-> [ total_processed |-> 0, errors |-> <<>>, runs |-> <<>>,
                               batch_idx |-> 0, total_records |-> 0,
                               ingredients |-> {} ],
                  result |-> <<>> ]
    /\ connection = [ driver |-> "unconstructed", connected |-> FALSE, calls |-> <<>>,
                      connecting |-> <<>>, closing |-> FALSE ]

\* The parser, the meal types, the price loader and the graph database are
\* not in use.
TextNone == ParseNone /\ MealNone /\ PriceNone /\ GraphDbNone

\* The classifier alone.
InitClassifier == ClsInit /\ NormNone /\ TextNone
NextClassifier == GetClassifier \/ ClassifyIngredientCall \/ ClassifyIngredientsCall
SpecClassifier == InitClassifier /\ [][NextClassifier]_vars

\* The one-at-a-time normalizers.
InitIncremental == ClsInit /\ NormInit /\ TextNone /\ impl \in {"new", "first_seen"}
NextIncremental == NormalizeNew \/ NormalizeFirstSeen
SpecIncremental == InitIncremental /\ [][NextIncremental]_vars

\* The staged normalizer.
InitStaged == ClsInit /\ NormInit /\ TextNone /\ impl = "staged"
NextStaged == StageIngredient \/ BuildEmbeddings \/ NormalizeStaged
SpecStaged == InitStaged /\ [][NextStaged]_vars

\* Any of the three normalizer classes.
InitNormalizers == InitIncremental \/ InitStaged
NextNormalizers == NextIncremental \/ NextStaged
SpecNormalizers == InitNormalizers /\ [][NextNormalizers]_vars

\* The parser functions.
InitParser == ClsInit /\ NormNone /\ ParseInit /\ MealNone /\ PriceNone /\ GraphDbNone
SpecParser ==
    InitParser /\ [][ParseIngredientCall \/ ParseIngredientNameCall
                        \/ SplitIngredientsCall]_vars

\* The meal-type classifiers.
InitMealType == ClsInit /\ NormNone /\ ParseNone /\ MealInit /\ PriceNone /\ GraphDbNone
SpecMealType == InitMealType /\ [][Classify \/ AssignMealType]_vars

\* The price loader on a graph, next to a RecipeLoader that has a driver:
\* extract_core_ingredient alone, and load_data while recipes are loaded.
InitPrice ==
    /\ ClsInit /\ NormNone /\ ParseNone /\ MealNone /\ PriceInit
    /\ loader = [ kind |-> "recipes", driver |-> TRUE, call |-> <<>>, batches |-> <<>>,
                  locals |-> [ total_processed |-> 0, errors |-> <<>>, runs |-> <<>>,
                               batch_idx |-> 0, total_records |-> 0,
                               ingredients |-> {} ],
                  result |-> <<>> ]
    /\ connection = [ driver |-> "unconstructed", connected |-> FALSE, calls |-> <<>>,
                      connecting |-> <<>>, closing |-> FALSE ]
SpecExtract == InitPrice /\ [][ExtractCoreIngredientCall]_vars
SpecPrice ==
    InitPrice /\ [][LoadData \/ LoadDataSession \/ LoadDataRead \/ LoadDataWriteSession \/ LoadDataWrite
                     \/ PriceSetDriver \/ RecipeLoadData
                     \/ RecipeLoadBatch]_vars

\* The graph database layer: either one of the loaders, constructed with or
\* without a driver (DataLoader.__init__), or a connection
\* (Neo4jConnection.__init__: driver None, connected False).
InitGraphDb ==
    /\ ClsInit /\ NormNone /\ ParseNone /\ MealNone /\ PriceNone
    /\ \/ /\ loader \in [ kind : { "recipes", "food_items", "persons" },
                          driver : BOOLEAN, call : { <<>> }, batches : { <<>> },
                          locals : { [ total_processed |-> 0, errors |-> <<>>, runs |-> <<>>,
                               batch_idx |-> 0, total_records |-> 0,
                               ingredients |-> {} ] },
                          result : { <<>> } ]
          /\ connection = [ driver |-> "unconstructed", connected |-> FALSE,
                            calls |-> <<>>, connecting |-> <<>>, closing |-> FALSE ]
       \/ /\ loader = [ kind |-> "none", driver |-> FALSE, call |-> <<>>,
                        batches |-> <<>>,
                        locals |-> [ total_processed |-> 0, errors |-> <<>>, runs |-> <<>>,
                               batch_idx |-> 0, total_records |-> 0,
                               ingredients |-> {} ],
                        result |-> <<>> ]
          /\ connection = [ driver |-> "None", connected |-> FALSE, calls |-> <<>>,
                      connecting |-> <<>>, closing |-> FALSE ]
SpecGraphDb ==
    InitGraphDb /\ [][RecipeLoadData \/ RecipeLoadBatch \/ FoodItemLoadData
                         \/ FoodItemLoadBatch \/ PersonLoadData \/ PersonLoadBatch
                         \/ SetDriver
                         \/ Connect \/ ConnectDriver \/ ConnectVerifyCall \/ ConnectVerify
                         \/ Close \/ CloseReturn \/ GetDriver]_vars

Init == InitClassifier \/ InitNormalizers \/ InitParser \/ InitMealType \/ InitPrice
           \/ InitGraphDb
Next == NextClassifier \/ NextNormalizers
           \/ ParseIngredientCall \/ ParseIngredientNameCall \/ SplitIngredientsCall
           \/ Classify \/ AssignMealType
           \/ ExtractCoreIngredientCall \/ LoadData \/ LoadDataSession \/ LoadDataRead
           \/ LoadDataWriteSession \/ LoadDataWrite \/ PriceSetDriver
           \/ RecipeLoadData \/ RecipeLoadBatch \/ FoodItemLoadData \/ FoodItemLoadBatch
           \/ PersonLoadData \/ PersonLoadBatch \/ SetDriver
           \/ Connect \/ ConnectDriver \/ ConnectVerifyCall \/ ConnectVerify
                         \/ Close \/ CloseReturn \/ GetDriver
Spec == Init /\ [][Next]_vars

-----------------------------------------------------------------------------
(* Properties of the classifier (checked under SpecClassifier).            *)

\* The records classify_ingredient has returned.
ReturnedProps == { returned[i].props : i \in 1..Len(returned) }

\* The allergen tags the flags of p imply.
ImpliedAllergens(p) ==
    { AllergenRules[i][2] : i \in {j \in 1..Len(AllergenRules) : p[AllergenRules[j][1]]} }

\* C1: every record classify_ingredient returns has is_vegetarian = false
\* whenever one of is_meat, is_poultry, is_fish, is_seafood is true.
C1_AnimalNotVegetarian ==
    \A p \in ReturnedProps :
        (p.is_meat \/ p.is_poultry \/ p.is_fish \/ p.is_seafood)
            => p.is_vegetarian = FALSE

\* C2: every record classify_ingredient returns has is_vegan = false whenever
\* is_vegetarian is false or is_dairy is true or is_egg is true.
C2_DairyEggNotVegan ==
    \A p \in ReturnedProps :
        (p.is_vegetarian = FALSE \/ p.is_dairy \/ p.is_egg) => p.is_vegan = FALSE

\* C3: the allergens of every record classify_ingredient returns are exactly
\* the tags its flags imply, and nothing else.
C3_AllergensDerived ==
    \A p \in ReturnedProps :
        { p.allergens[i] : i \in 1..Len(p.allergens) } = ImpliedAllergens(p)

\* C4: every record classify_ingredient returns satisfies
\* is_vegan = true implies is_vegetarian = true.
C4_VeganImpliesVegetarian ==
    \A p \in ReturnedProps : p.is_vegan => p.is_vegetarian

\* A name with a meat keyword and a name with none have both been classified,
\* and the records returned are vegan.
C4_Witness ==
    /\ \E p \in ReturnedProps : p.is_vegan /\ p.is_meat
    /\ \E p \in ReturnedProps : p.is_vegan /\ ~p.is_meat

C26_PorkShellfishFlags ==
    \A i \in 1..Len(returned) :
       \E name \in { Strip(Lower(returned[i].ingredient)) } :
          /\ returned[i].props.is_halal = FALSE
                <=> \E k \in pork_keywords : Contains(name, k)
          /\ returned[i].props.is_kosher = FALSE
                <=> \/ \E k \in pork_keywords : Contains(name, k)
                    \/ \E k \in shellfish_keywords : Contains(name, k)
          /\ returned[i].props.is_halal = FALSE => returned[i].props.is_kosher = FALSE

\* A name with a pork keyword, a name with a shellfish keyword only and a
\* name with neither have been classified.
C26_Witness ==
    /\ \E i \in 1..Len(returned) : ~returned[i].props.is_halal
    /\ \E i \in 1..Len(returned) :
          returned[i].props.is_halal /\ ~returned[i].props.is_kosher
    /\ \E i \in 1..Len(returned) :
          returned[i].props.is_halal /\ returned[i].props.is_kosher

-----------------------------------------------------------------------------
(* Properties of the normalizers.                                          *)

\* The key normalize() and stage_ingredient() derive from a raw string.
KeyOf(raw) == Strip(Lower(raw))

\* C5: once normalize(x) has returned c for a raw string x, every later
\* normalize(x) on the same instance returns c again
\* (ingredient_embedder_new.py).
C5_RepeatedNormalizeAgrees ==
    impl = "new" =>
        \A i, j \in 1..Len(history) :
            history[i].raw = history[j].raw => history[i].result = history[j].result

\* C6: when a name joins an existing cluster, the cluster's stored
\* representative becomes the shorter of the existing representative and
\* the new name (ingredient_embedder_new.py).
C6_JoinStoresShorter ==
    [][ ( /\ impl = "new"
          /\ Len(history') = Len(history) + 1
          /\ history'[Len(history')].joined # 0 )
        => LET call == history'[Len(history')]
           IN  names'[call.joined] =
                   PreferShorter(names[call.joined], KeyOf(call.raw)) ]_vars

\* C7: every name recorded as the canonical name of some raw name is itself
\* recorded, with itself as its canonical name; a raw name, being a key of
\* the map, has one canonical name.
C7_CanonicalIdempotent ==
    \A n \in DOMAIN canonical :
        /\ canonical[n] \in DOMAIN canonical
        /\ canonical[canonical[n]] = canonical[n]

\* Some name is recorded under a canonical name other than itself.
C7_Witness ==
    \E n \in DOMAIN canonical : canonical[n] # n

\* The first two calls normalized a shorter name and then a longer one whose
\* similarity to it is above the threshold.
ShorterThenLonger ==
    /\ Len(history) >= 2
    /\ Len(KeyOf(history[1].raw)) < Len(KeyOf(history[2].raw))
    /\ AboveThreshold(encode[KeyOf(history[2].raw)], encode[KeyOf(history[1].raw)],
                      threshold)

\* C8: on a fresh normalizer, normalizing a shorter name s and then a longer
\* name l of similarity above the threshold yields s for both.
C8_ShorterFirstWins ==
    ShorterThenLonger =>
        /\ history[1].result = KeyOf(history[1].raw)
        /\ history[2].result = KeyOf(history[1].raw)

\* The case of C8 has happened, in the class that prefers the shorter name.
C8_Witness == impl = "new" /\ ShorterThenLonger

\* b is the name closest to a among the names of `others`, strictly.
ClosestMatch(a, b, others) ==
    \A c \in others \ {a, b} : SimGreater(encode[a], encode[b], encode[c])

\* C9: after a build_embeddings call, two names of the batch whose similarity
\* exceeds the threshold and that are each other's closest match have the
\* same canonical name.
C9_MutualClosestGrouped ==
    [][ (impl = "staged" /\ to_embed # {} /\ to_embed' = {})
        => \A a, b \in to_embed :
              ( /\ a # b
                /\ AboveThreshold(encode[a], encode[b], threshold)
                /\ ClosestMatch(a, b, to_embed \cup DOMAIN canonical)
                /\ ClosestMatch(b, a, to_embed \cup DOMAIN canonical) )
              => canonical'[a] = canonical'[b] ]_vars

\* C10: the cluster list never loses an entry, and a recorded canonical name
\* is never removed or changed (ingredient_embedder_new.py).
C10_WriteOnceAppendOnly ==
    [][ impl = "new" =>
          /\ Len(names') >= Len(names)
          /\ \A i \in 1..Len(names) :
                names'[i] = names[i] /\ embeddings'[i] = embeddings[i]
          /\ \A n \in DOMAIN canonical :
                n \in DOMAIN canonical' /\ canonical'[n] = canonical[n] ]_vars

\* No cluster among those numbered in `clusters` has a similarity to the
\* name above the threshold; embs are the clusters' vectors.
NoneAbove(name, embs, clusters) ==
    \A i \in clusters : ~AboveThreshold(encode[name], embs[i], threshold)

\* The clusters that exist when build_embeddings processes name a: those of
\* before the call and those started by names sorted before a.
ClustersBefore(a, old, all) ==
    { j \in 1..Len(all) : j <= Len(old) \/ StrLess(all[j], a) }

\* C27: processing a name that is not recorded yet adds a cluster, with the
\* name as its representative and its canonical name, exactly when there is
\* no cluster yet or no cluster has a similarity strictly greater than the
\* threshold; otherwise the number of clusters is unchanged.  For normalize()
\* of the one-at-a-time classes, and for each name of a build_embeddings
\* call.
C27_NewClusterWhenNotAbove ==
    [][ /\ ( /\ impl \in { "new", "first_seen" }
             /\ Len(history') = Len(history) + 1
             /\ KeyOf(history'[Len(history')].raw) \notin DOMAIN canonical )
           => \E key \in { KeyOf(history'[Len(history')].raw) } :
                 IF NoneAbove(key, embeddings, 1..Len(embeddings))
                 THEN /\ names' = Append(names, key)
                      /\ embeddings' = Append(embeddings, encode[key])
                      /\ canonical'[key] = key
                 ELSE names' = names /\ embeddings' = embeddings
        /\ (impl = "staged" /\ to_embed # {} /\ to_embed' = {})
           => /\ \A a \in to_embed :
                    IF NoneAbove(a, embeddings', ClustersBefore(a, names, names'))
                    THEN /\ canonical'[a] = a
                         /\ \E j \in (Len(names) + 1)..Len(names') :
                               names'[j] = a /\ embeddings'[j] = encode[a]
                    ELSE \A j \in (Len(names) + 1)..Len(names') : names'[j] # a
              /\ Len(names') = Len(names) + Cardinality(
                    { a \in to_embed :
                        NoneAbove(a, embeddings', ClustersBefore(a, names, names')) })
              /\ SubSeq(names', 1, Len(names)) = names ]_vars

\* There are two clusters and a name that joined one of them.
C27_Witness ==
    /\ Len(names) = 2
    /\ \E n \in DOMAIN canonical : \A i \in 1..Len(names) : names[i] # n

\* The name has no upper-case letter and no white space at either end.
LowerTrimmed(n) ==
    /\ \A i \in 1..Len(n) : \A k \in 1..Len(UpperChars) : n[i] # UpperChars[k]
    /\ n # <<>> => (n[1] \notin Whitespace /\ n[Len(n)] \notin Whitespace)

\* C28: in the staged normalizer a name enters the pending set only
\* lower-cased, trimmed and without a recorded canonical name; a
\* build_embeddings call that records anything empties the pending set and
\* records a canonical name for every name that was pending; with an empty
\* pending set nothing of the clustering changes.
C28_StageThenBuild ==
    [][ impl = "staged" =>
          /\ \A n \in to_embed' \ to_embed :
                /\ n \notin DOMAIN canonical
                /\ LowerTrimmed(n)
                /\ canonical' = canonical
          /\ (to_embed # {} /\ to_embed' = {})
                => \A n \in to_embed : n \in DOMAIN canonical'
          /\ canonical' # canonical => (to_embed # {} /\ to_embed' = {})
          /\ (to_embed = {} /\ to_embed' = {})
                => UNCHANGED <<canonical, embeddings, names>> ]_vars

\* A name is pending after an earlier build recorded canonical names.
C28_Witness == to_embed # {} /\ DOMAIN canonical # {}

\* The state build_embeddings() leaves when the pending set is `pending`.
BuildOf(pending) ==
    IF pending = {} THEN Self ELSE BuildLoop(Self, Sorted(pending), threshold)

\* C29: in the staged normalizer the clusters and the canonical map of a
\* build depend on the prior state and the set of staged names only: staging
\* two names in either order, or a name twice, gives the same pending set
\* and the same build.  Neither staging nor building reads the log of
\* lookups, so the comparison is made in the states whose log is empty.
C29_BuildIndependentOfStagingOrder ==
    (impl = "staged" /\ history = <<>>) =>
       /\ \A pair \in { p \in SUBSET RawNames : Cardinality(p) = 2 } :
             \E r1 \in pair : \E r2 \in pair \ {r1} :
                /\ Stage(Stage(to_embed, r1), r2) = Stage(Stage(to_embed, r2), r1)
                /\ BuildOf(Stage(Stage(to_embed, r1), r2))
                      = BuildOf(Stage(Stage(to_embed, r2), r1))
       /\ \A r1 \in RawNames :
             /\ Stage(Stage(to_embed, r1), r1) = Stage(to_embed, r1)
             /\ BuildOf(Stage(Stage(to_embed, r1), r1))
                   = BuildOf(Stage(to_embed, r1))

\* Two names are pending on top of clusters of an earlier build.
C29_Witness == Cardinality(to_embed) >= 2 /\ names # <<>>

-----------------------------------------------------------------------------
(* Properties of the parser (checked under SpecParser).                    *)

\* C11: every parse_ingredient call, of any of the modules, returns a
\* 3-tuple (amount, unit, name), whether or not the pattern matches.
C11_ParseReturnsTriple ==
    parsed.fn = "parse_ingredient" =>
        /\ parsed.result.type = "tuple"
        /\ Len(parsed.result.value) = 3

\* The call at hand is a parse_ingredient call of the modules that return
\* the three components.
ParsedTriple ==
    parsed.fn = "parse_ingredient" /\ parsed.module = "ingredient_parser_new_ds"

\* C12 as stated: the name returned is never empty, and it is the whole
\* trimmed input when the pattern does not match.
C12_NameNonEmpty ==
    ParsedTriple =>
        /\ parsed.result.value[3] # <<>>
        /\ ~PATTERN(Strip(parsed.arg)).matched =>
               parsed.result.value[3] = Strip(parsed.arg)

\* C12: for every input that is not empty after trimming, the name returned
\* is not empty; when the pattern does not match, the name is the whole
\* trimmed input.
C12_NameNonEmptyUnlessBlank ==
    ParsedTriple =>
        /\ Strip(parsed.arg) # <<>> => parsed.result.value[3] # <<>>
        /\ ~PATTERN(Strip(parsed.arg)).matched =>
               parsed.result.value[3] = Strip(parsed.arg)

\* An input with whitespace around it that the pattern does not match has
\* been parsed to its trimmed, non-empty self.
C12_Witness ==
    /\ ParsedTriple
    /\ ~PATTERN(Strip(parsed.arg)).matched
    /\ Strip(parsed.arg) # parsed.arg
    /\ Strip(parsed.arg) # <<>>
    /\ parsed.result.value[3] = Strip(parsed.arg)

\* The input is amount, word and text of `texts`, separated by whitespace,
\* and the call returned exactly these three.
ParsedAsWritten(texts) ==
    \A a \in Amounts, s1 \in Separators, w \in UnitWords,
       s2 \in Separators, t \in texts :
          parsed.arg = a \o s1 \o w \o s2 \o t =>
              parsed.result.value = <<a, w, t>>

\* C13 as stated: a phrase made of an amount, one alphabetic word and
\* further text is parsed to that amount, that word as unit and that text
\* as name, whatever the text.
C13_AmountUnitName ==
    (ParsedTriple /\ parsed.arg \in Phrases) => ParsedAsWritten(NameTexts)

\* C13: a phrase made of an amount, one alphabetic word and further text
\* without a line break is parsed to that amount, that word as unit and
\* that text as name.
C13_AmountUnitNameOneLine ==
    (ParsedTriple /\ parsed.arg \in Phrases) =>
        ParsedAsWritten({ t \in NameTexts : \A i \in 1..Len(t) : t[i] # "\n" })

\* "2 diced drained oil-packed sun-dried tomatoes" has been parsed to "2",
\* "diced" and the rest.
C13_Witness ==
    /\ ParsedTriple
    /\ parsed.arg = tomato_phrase
    /\ parsed.result.value = << <<"2">>, <<"d","i","c","e","d">>, tomato_name >>

\* The call at hand is a split_ingredients call.
SplitDone == parsed.fn = "split_ingredients"

\* The commas of s that are followed, after optional whitespace, by a digit.
DigitCommas(s) ==
    { i \in 1..Len(s) :
         /\ s[i] = ","
         /\ RunEnd(s, i, Whitespace) < Len(s)
         /\ s[RunEnd(s, i, Whitespace) + 1] \in Digits }

\* The phrases of s from position i on when a phrase ends at each of these
\* commas and the next one starts at the digit.
RECURSIVE PhrasesFrom(_, _)
PhrasesFrom(s, i) ==
    CHOOSE r \in
      { IF cs = {}
        THEN TrimParts(Split(SubSeq(s, i + 1, Len(s)), "|"))
        ELSE CHOOSE q \in
               { TrimParts(Split(SubSeq(s, i + 1, c), "|"))
                    \o PhrasesFrom(s, RunEnd(s, c, Whitespace))
                 : c \in { k \in cs : \A o \in cs : k <= o } } : TRUE
        : cs \in { { c \in DigitCommas(s) : c > i } } } : TRUE

\* "1 cup warm water" and "2 eggs"
water_phrase  == <<"1"," ","c","u","p"," ","w","a","r","m"," ","w","a","t","e","r">>
eggs_phrase   == <<"2"," ","e","g","g","s">>

\* C14: split_ingredients starts a new phrase at every comma that is
\* followed, after optional whitespace, by a digit, and returns the phrases
\* in input order; "1 cup warm water, 2 eggs" gives "1 cup warm water" and
\* "2 eggs".
C14_SplitAtDigitCommas ==
    SplitDone =>
        /\ parsed.result = PhrasesFrom(Strip(parsed.arg), 0)
        /\ DigitCommas(Strip(parsed.arg)) # {} =>
               Len(parsed.result) > Cardinality(DigitCommas(Strip(parsed.arg)))
        /\ parsed.arg = water_eggs => parsed.result = <<water_phrase, eggs_phrase>>

\* "1 cup warm water, 2 eggs" has been split into its two phrases.
C14_Witness ==
    /\ SplitDone
    /\ parsed.arg = water_eggs
    /\ DigitCommas(Strip(parsed.arg)) # {}
    /\ parsed.result = <<water_phrase, eggs_phrase>>

\* C15 as stated: an input in which no comma is followed by a digit comes
\* back as exactly one phrase, the trimmed input.
C15_NoDigitCommaOnePhrase ==
    (SplitDone /\ DigitCommas(Strip(parsed.arg)) = {}) =>
        parsed.result = << Strip(parsed.arg) >>

\* C15: an input without "|" in which no comma is followed by a digit comes
\* back as no phrase when it is empty after trimming, and otherwise as
\* exactly one phrase: the trimmed input without its leading and trailing
\* commas and spaces.
C15_NoDigitCommaAtMostOnePhrase ==
    ( /\ SplitDone
      /\ DigitCommas(Strip(parsed.arg)) = {}
      /\ \A i \in 1..Len(parsed.arg) : parsed.arg[i] # "|" ) =>
        parsed.result = IF Strip(parsed.arg) = <<>>
                        THEN <<>>
                        ELSE << StripChars(Strip(parsed.arg), {" ", ","}) >>

\* "1 large garlic clove, crushed," has come back as one phrase that still
\* holds its descriptive comma.
C15_Witness ==
    /\ SplitDone
    /\ parsed.arg = garlic_phrase
    /\ DigitCommas(Strip(parsed.arg)) = {}
    /\ Len(parsed.result) = 1
    /\ \E i \in 1..Len(parsed.result[1]) : parsed.result[1][i] = ","

\* C16: every phrase split_ingredients returns is non-empty and neither
\* starts nor ends with a comma or whitespace.
C16_PhrasesTrimmedNonEmpty ==
    SplitDone =>
        \A k \in 1..Len(parsed.result) :
           /\ parsed.result[k] # <<>>
           /\ parsed.result[k][1] \notin Whitespace \cup {","}
           /\ parsed.result[k][Len(parsed.result[k])] \notin Whitespace \cup {","}

-----------------------------------------------------------------------------
(* Properties of the meal-type classifiers (checked under SpecMealType).   *)

\* C17: whatever the title, the label returned is one of Breakfast, Lunch,
\* Dinner, Dessert, Drink and Other.
C17_LabelInClosedSet ==
    meal_type.fn # "none" =>
        meal_type.result \in {"Breakfast", "Lunch", "Dinner", "Dessert", "Drink", "Other"}

\* The similarity of the title to label i equals the threshold.
ScoreEqualsThreshold(i) ==
    100 * 100 * Dot(meal_type.vector, meal_embeddings[i])
              * Dot(meal_type.vector, meal_embeddings[i])
      = meal_threshold * meal_threshold
          * Dot(meal_type.vector, meal_type.vector)
          * Dot(meal_embeddings[i], meal_embeddings[i])

\* Label i has the highest similarity to the title.
HighestSimilarity(i) ==
    \A j \in 1..Len(meal_embeddings) :
       ~SimGreater(meal_type.vector, meal_embeddings[j], meal_embeddings[i])

\* C18: MealTypeEmbedder returns "Other" exactly when the highest similarity
\* of the title to a label is below the threshold, and otherwise, a score
\* equal to the threshold included, a label of the highest similarity.
C18_OtherBelowThreshold ==
    meal_type.fn = "classify" =>
        /\ meal_type.result = "Other" <=>
              \A i \in 1..Len(meal_embeddings) :
                 ~AtLeastThreshold(meal_type.vector, meal_embeddings[i], meal_threshold)
        /\ meal_type.result # "Other" =>
              \E i \in 1..Len(meal_embeddings) :
                 meal_types[i] = meal_type.result /\ HighestSimilarity(i)

\* A title whose highest similarity equals the threshold has been given its
\* label.
C18_Witness ==
    /\ meal_type.fn = "classify"
    /\ meal_type.result # "Other"
    /\ \E i \in 1..Len(meal_embeddings) :
          /\ meal_types[i] = meal_type.result
          /\ HighestSimilarity(i)
          /\ ScoreEqualsThreshold(i)

-----------------------------------------------------------------------------
(* Properties of the price loader (checked under SpecPrice and             *)
(* SpecExtract).                                                           *)

\* The call read the names of the Ingredient nodes and computed its batch:
\* it ended at the return of line 78, in the second session or at the return
\* of line 95.
ReadNames(call) == call.ended \in { 78, 83, 84, 99 }

\* C19: load_data links a product to an ingredient exactly when
\* extract_core_ingredient gives the same core term for the product
\* description and for the ingredient name (tables of one row, calls that
\* read the ingredient names, compared with the names the call read).
C19_LinkedWhenCoresMatch ==
    \A k \in 1..Len(loaded) :
       (Len(loaded[k].df) = 1 /\ ReadNames(loaded[k])) =>
          \A ing \in loaded[k].names :
             (\E b \in 1..Len(loaded[k].batch) :
                 loaded[k].batch[b].original_ingredient = ing)
             <=> /\ ExtractCoreIngredient(ing) # None
                 /\ ExtractCoreIngredient(ing)
                      = ExtractCoreIngredient(loaded[k].df[1].product_name)

\* C20: extract_core_ingredient gives the same core term for
\* "sun-dried tomatoes" and for "Organic Sun-Dried Tomatoes, 8oz jar".
C20_SunDriedTomatoesMatch ==
    \A i, j \in 1..Len(extracted) :
       (extracted[i].arg = sun_dried_tomatoes /\ extracted[j].arg = organic_jar)
           => extracted[i].result = extracted[j].result

\* The product name of row i of a table, as load_data searches it.
SearchedName(df, i) == Strip(Lower(df[i].product_name))

\* The core term of ingredient ing occurs in name as a whole word.
CoreOccurs(ing, name) ==
    \E core \in { ExtractCoreIngredient(ing) } :
       /\ core # None
       /\ \E p \in 0..Len(name) :
             /\ IsBoundary(name, p)
             /\ StartsWithAt(name, p, core.value)
             /\ IsBoundary(name, p + Len(core.value))

-----------------------------------------------------------------------------
(* Properties of the loaders and of the connection (checked under          *)
(* SpecGraphDb).                                                           *)

\* A load_data call has gone through its loop over the batches.
LoopDone ==
    /\ loader.result # <<>>
    /\ "errors" \in DOMAIN loader.result[1]

\* C22: in the recipe, food-item and person loaders a failed batch write is
\* recorded in the errors list with its batch index and every batch after
\* it, up to the one the loop has reached, is still written; no failure
\* ends the call: while it has not returned its dict it has a batch left,
\* and when it has returned it has gone through all of them.
C22_BatchFailureRecorded ==
    /\ (loader.call # <<>> /\ loader.result = <<>>) =>
          loader.locals.batch_idx < Len(loader.batches)
    /\ LoopDone => loader.locals.batch_idx = Len(loader.batches)
    /\ \A i \in 1..Len(loader.locals.runs) :
          ~loader.locals.runs[i].ok =>
             /\ \E e \in 1..Len(loader.locals.errors) :
                   loader.locals.errors[e] =
                       [ text |-> "Error in batch",
                         index |-> loader.locals.runs[i].batch_idx ]
             /\ \A b \in 0..(loader.locals.batch_idx - 1) :
                   b > loader.locals.runs[i].batch_idx =>
                      \E j \in 1..Len(loader.locals.runs) :
                         /\ loader.locals.runs[j].batch_idx = b
                         /\ loader.locals.runs[j].records = loader.batches[b + 1]

\* The write of one batch failed and the write of a later batch succeeded.
C22_Witness ==
    /\ LoopDone
    /\ \E i, j \in 1..Len(loader.locals.runs) :
          /\ i < j
          /\ ~loader.locals.runs[i].ok
          /\ loader.locals.runs[j].ok

\* The result of a load_data call records an error: its errors list is not
\* empty, or it has an error message.
ErrorRecorded ==
    \/ "error" \in DOMAIN loader.result[1]
    \/ "errors" \in DOMAIN loader.result[1] /\ loader.result[1].errors # <<>>

\* C23: the status a loader returns is "success" exactly when no error was
\* recorded, "partial_success" exactly when an error was recorded and
\* total_processed > 0, and "error" exactly when an error was recorded and
\* total_processed = 0.
C23_StatusFromErrorsAndCount ==
    loader.result # <<>> =>
       /\ loader.result[1].status = "success" <=> ~ErrorRecorded
       /\ loader.result[1].status = "partial_success"
             <=> (ErrorRecorded /\ loader.locals.total_processed > 0)
       /\ loader.result[1].status = "error"
             <=> (ErrorRecorded /\ loader.locals.total_processed = 0)
       /\ "total_processed" \in DOMAIN loader.result[1] =>
             loader.result[1].total_processed = loader.locals.total_processed

\* A call has returned "partial_success" with more errors than its result
\* lists.
C23_Witness ==
    /\ LoopDone
    /\ loader.result[1].status = "partial_success"
    /\ Len(loader.locals.errors) > Len(loader.result[1].errors)

\* The number of rows in the batches of the session.run calls i.. that
\* returned.
RECURSIVE WrittenFrom(_)
WrittenFrom(i) ==
    IF i > Len(loader.locals.runs) THEN 0
    ELSE (IF loader.locals.runs[i].ok
          THEN Len(loader.batches[loader.locals.runs[i].batch_idx + 1])
          ELSE 0) + WrittenFrom(i + 1)

\* C24: when load_data has finished, total_processed is the number of
\* records in the batches whose write succeeded, whatever batches failed.
C24_ProcessedCountsWritten ==
    LoopDone => loader.result[1].total_processed = WrittenFrom(1)

\* Of three batches of more than one record the first was written, the
\* second failed and the third was written.
C24_Witness ==
    /\ LoopDone
    /\ Len(loader.locals.runs) = 3
    /\ Len(loader.locals.runs[2].records) > 1
    /\ loader.locals.runs[1].ok /\ ~loader.locals.runs[2].ok /\ loader.locals.runs[3].ok

\* C30: get_driver returns a driver only if the connection is connected:
\* the most recent connect() returned True and close() has not been called
\* since; in every state a driver is held only by a connected connection.
C30_DriverOnlyWhenConnected ==
    /\ connection.driver = "Driver" => connection.connected
    /\ \A i \in 1..Len(connection.calls) :
          (connection.calls[i].op = "get_driver"
             /\ connection.calls[i].returned = "Driver")
          => \E c \in 1..(i - 1) :
                /\ connection.calls[c] = [ op |-> "connect", returned |-> TRUE ]
                /\ \A k \in (c + 1)..(i - 1) :
                      connection.calls[k].op = "get_driver"

=============================================================================
